---- MODULE Spec2Model ----
(***************************************************************************)
(* Model of the Istanbul district -> region lookup                          *)
(* (common/istanbul_districts.py) and of the Aytemiz LPG merge              *)
(* (aytemiz/scraper.py).                                                    *)
(*                                                                          *)
(* A Python str is a sequence of Unicode code points (the values of ord()), *)
(* so that lower(), split(), replace() and the substring test act on        *)
(* characters as they do in Python.  Next to each literal its text is given *)
(* in ASCII: "i(dotless)" is U+0131, "I(dotted)" U+0130, "s," "g^" "u:"     *)
(* "o:" "c," are the s-cedilla, g-breve, u-umlaut, o-umlaut, c-cedilla.     *)
(***************************************************************************)
EXTENDS Integers, Sequences, FiniteSets, TLC

\* Python's None: a value that is equal to no str.
None == << -1 >>

\* ------------------------------------------------------------------------
\* str primitives

\* The characters str.isspace() accepts: str.split() and str.strip() without
\* arguments cut at these.
WHITESPACE ==
    {9, 10, 11, 12, 13, 28, 29, 30, 31, 32, 133, 160, 5760, 8232, 8233, 8239,
     8287, 12288} \cup (8192..8202)

RECURSIVE concat(_)
\* "".join(parts)
concat(parts) ==
    IF parts = <<>> THEN <<>> ELSE Head(parts) \o concat(Tail(parts))

RECURSIVE join(_, _)
\* sep.join(parts)
join(sep, parts) ==
    IF parts = <<>> THEN <<>>
    ELSE IF Len(parts) = 1 THEN parts[1]
    ELSE parts[1] \o sep \o join(sep, Tail(parts))

\* str.lower() of one character.  U+0130 lowers to TWO code points, "i"
\* followed by U+0307 COMBINING DOT ABOVE (Unicode SpecialCasing).
lower_char(c) ==
    IF c \in 65..90 THEN <<c + 32>>
    ELSE IF c = 304 THEN <<105, 775>>
    ELSE IF c \in {199, 214, 220} THEN <<c + 32>>
    ELSE IF c \in {286, 350} THEN <<c + 1>>
    ELSE <<c>>

\* str.lower()
str_lower(s) == concat([i \in 1..Len(s) |-> lower_char(s[i])])

\* str.upper() of one character ("i" and U+0131 both give "I").
upper_char(c) ==
    IF c \in 97..122 THEN c - 32
    ELSE IF c = 305 THEN 73
    ELSE IF c \in {231, 246, 252} THEN c - 32
    ELSE IF c \in {287, 351} THEN c - 1
    ELSE c

\* str.upper() (on the characters of this model, one code point each)
str_upper(s) == [i \in 1..Len(s) |-> upper_char(s[i])]

RECURSIVE lstrip(_)
lstrip(s) ==
    IF s # <<>> /\ Head(s) \in WHITESPACE THEN lstrip(Tail(s)) ELSE s

RECURSIVE rstrip(_)
rstrip(s) ==
    IF s # <<>> /\ s[Len(s)] \in WHITESPACE
    THEN rstrip(SubSeq(s, 1, Len(s) - 1)) ELSE s

\* str.strip()
strip(s) == rstrip(lstrip(s))

\* Length of the longest prefix of s free of the characters of stop.
span(s, stop) ==
    LET hits == {i \in 1..Len(s) : s[i] \in stop}
    IN  IF hits = {} THEN Len(s)
        ELSE (CHOOSE i \in hits : \A j \in hits : i <= j) - 1

RECURSIVE split(_)
\* str.split(): the maximal runs of non-whitespace characters
split(s) ==
    LET t == lstrip(s)
        n == span(t, WHITESPACE)
    IN  IF t = <<>> THEN <<>>
        ELSE <<SubSeq(t, 1, n)>> \o split(SubSeq(t, n + 1, Len(t)))

\* str.replace(old, new) for one-character old and new
replace(s, old, new) == [i \in 1..Len(s) |-> IF s[i] = old THEN new ELSE s[i]]

\* needle in s
contains(s, needle) ==
    \E i \in 0..(Len(s) - Len(needle)) :
        SubSeq(s, i + 1, i + Len(needle)) = needle

\* ------------------------------------------------------------------------
\* common/istanbul_districts.py

Avrupa == <<65, 118, 114, 117, 112, 97>>
Anadolu == <<65, 110, 97, 100, 111, 108, 117>>

\* The entries under the comment "Avrupa Yakasi", in order.
AVRUPA_ENTRIES == <<
    [key |-> <<65, 114, 110, 97, 118, 117, 116, 107, 246, 121>>, region |-> Avrupa],  \* Arnavutko:y
    [key |-> <<65, 118, 99, 305, 108, 97, 114>>, region |-> Avrupa],  \* Avci(dotless)lar
    [key |-> <<66, 97, 287, 99, 305, 108, 97, 114>>, region |-> Avrupa],  \* Bag^ci(dotless)lar
    [key |-> <<66, 97, 104, 231, 101, 108, 105, 101, 118, 108, 101, 114>>, region |-> Avrupa],  \* Bahc,elievler
    [key |-> <<66, 97, 107, 305, 114, 107, 246, 121>>, region |-> Avrupa],  \* Baki(dotless)rko:y
    [key |-> <<66, 97, 351, 97, 107, 351, 101, 104, 105, 114>>, region |-> Avrupa],  \* Bas,aks,ehir
    [key |-> <<66, 97, 121, 114, 97, 109, 112, 97, 351, 97>>, region |-> Avrupa],  \* Bayrampas,a
    [key |-> <<66, 101, 351, 105, 107, 116, 97, 351>>, region |-> Avrupa],  \* Bes,iktas,
    [key |-> <<66, 101, 121, 108, 105, 107, 100, 252, 122, 252>>, region |-> Avrupa],  \* Beylikdu:zu:
    [key |-> <<66, 101, 121, 111, 287, 108, 117>>, region |-> Avrupa],  \* Beyog^lu
    [key |-> <<66, 252, 121, 252, 107, 231, 101, 107, 109, 101, 99, 101>>, region |-> Avrupa],  \* Bu:yu:kc,ekmece
    [key |-> <<199, 97, 116, 97, 108, 99, 97>>, region |-> Avrupa],  \* C,atalca
    [key |-> <<69, 115, 101, 110, 108, 101, 114>>, region |-> Avrupa],  \* Esenler
    [key |-> <<69, 115, 101, 110, 121, 117, 114, 116>>, region |-> Avrupa],  \* Esenyurt
    [key |-> <<69, 121, 252, 112>>, region |-> Avrupa],  \* Eyu:p
    [key |-> <<69, 121, 252, 112, 115, 117, 108, 116, 97, 110>>, region |-> Avrupa],  \* Eyu:psultan
    [key |-> <<69, 109, 105, 110, 246, 110, 252>>, region |-> Avrupa],  \* Emino:nu:
    [key |-> <<70, 97, 116, 105, 104>>, region |-> Avrupa],  \* Fatih
    [key |-> <<71, 97, 122, 105, 111, 115, 109, 97, 110, 112, 97, 351, 97>>, region |-> Avrupa],  \* Gaziosmanpas,a
    [key |-> <<71, 252, 110, 103, 246, 114, 101, 110>>, region |-> Avrupa],  \* Gu:ngo:ren
    [key |-> <<75, 97, 287, 305, 116, 104, 97, 110, 101>>, region |-> Avrupa],  \* Kag^i(dotless)thane
    [key |-> <<75, 252, 231, 252, 107, 231, 101, 107, 109, 101, 99, 101>>, region |-> Avrupa],  \* Ku:c,u:kc,ekmece
    [key |-> <<83, 97, 114, 305, 121, 101, 114>>, region |-> Avrupa],  \* Sari(dotless)yer
    [key |-> <<83, 105, 108, 105, 118, 114, 105>>, region |-> Avrupa],  \* Silivri
    [key |-> <<350, 105, 351, 108, 105>>, region |-> Avrupa],  \* S,is,li
    [key |-> <<83, 117, 108, 116, 97, 110, 103, 97, 122, 105>>, region |-> Avrupa],  \* Sultangazi
    [key |-> <<90, 101, 121, 116, 105, 110, 98, 117, 114, 110, 117>>, region |-> Avrupa]  \* Zeytinburnu
>>

\* The entries under the comment "Anadolu Yakasi", in order.
ANADOLU_ENTRIES == <<
    [key |-> <<65, 100, 97, 108, 97, 114>>, region |-> Anadolu],  \* Adalar
    [key |-> <<65, 116, 97, 351, 101, 104, 105, 114>>, region |-> Anadolu],  \* Atas,ehir
    [key |-> <<66, 101, 121, 107, 111, 122>>, region |-> Anadolu],  \* Beykoz
    [key |-> <<199, 101, 107, 109, 101, 107, 246, 121>>, region |-> Anadolu],  \* C,ekmeko:y
    [key |-> <<75, 97, 100, 305, 107, 246, 121>>, region |-> Anadolu],  \* Kadi(dotless)ko:y
    [key |-> <<75, 97, 114, 116, 97, 108>>, region |-> Anadolu],  \* Kartal
    [key |-> <<77, 97, 108, 116, 101, 112, 101>>, region |-> Anadolu],  \* Maltepe
    [key |-> <<80, 101, 110, 100, 105, 107>>, region |-> Anadolu],  \* Pendik
    [key |-> <<83, 97, 110, 99, 97, 107, 116, 101, 112, 101>>, region |-> Anadolu],  \* Sancaktepe
    [key |-> <<83, 117, 108, 116, 97, 110, 98, 101, 121, 108, 105>>, region |-> Anadolu],  \* Sultanbeyli
    [key |-> <<350, 105, 108, 101>>, region |-> Anadolu],  \* S,ile
    [key |-> <<84, 117, 122, 108, 97>>, region |-> Anadolu],  \* Tuzla
    [key |-> <<220, 109, 114, 97, 110, 105, 121, 101>>, region |-> Anadolu],  \* U:mraniye
    [key |-> <<220, 115, 107, 252, 100, 97, 114>>, region |-> Anadolu]  \* U:sku:dar
>>

\* A table to which the alias "Sile" (ASCII spelling of S,ile, an Anadolu
\* district) was added on the wrong side.
ISTANBUL_DISTRICT_REGIONS_wrong_alias ==
    AVRUPA_ENTRIES \o <<[key |-> <<83, 105, 108, 101>>, region |-> Avrupa]>>
        \o ANADOLU_ENTRIES

\* The dict literal, in insertion order (the order .items() iterates in).
ISTANBUL_DISTRICT_REGIONS == AVRUPA_ENTRIES \o ANADOLU_ENTRIES

\* The replacements dict of _normalize_turkish_chars, in insertion order.
replacements == <<
    <<305, 105>>, <<304, 73>>, <<351, 115>>, <<350, 83>>,
    <<287, 103>>, <<286, 71>>, <<252, 117>>, <<220, 85>>,
    <<246, 111>>, <<214, 79>>, <<231, 99>>, <<199, 67>> >>

RECURSIVE replace_each(_, _)
\* the loop: for turkish, ascii_char in replacements.items(): result = ...
replace_each(result, todo) ==
    IF todo = <<>> THEN result
    ELSE replace_each(replace(result, Head(todo)[1], Head(todo)[2]), Tail(todo))

_normalize_turkish_chars(text) == replace_each(text, replacements)

\* _normalize_turkish_chars(" ".join(x.strip().split()).lower())
normalized(x) == _normalize_turkish_chars(str_lower(join(<<32>>, split(strip(x)))))

\* normalized_key of every entry (line 86)
normalized_key == [i \in 1..Len(ISTANBUL_DISTRICT_REGIONS) |->
                      normalized(ISTANBUL_DISTRICT_REGIONS[i].key)]

RECURSIVE first_match(_, _)
\* the for loop over .items(): the region of the first entry at or after i
\* whose normalized key equals the normalized input, else None
first_match(normalized_input, i) ==
    IF i > Len(ISTANBUL_DISTRICT_REGIONS) THEN None
    ELSE IF normalized_key[i] = normalized_input
         THEN ISTANBUL_DISTRICT_REGIONS[i].region
    ELSE first_match(normalized_input, i + 1)

RECURSIVE first_prefix_match(_, _)
first_prefix_match(normalized_input, i) ==
    IF i > Len(ISTANBUL_DISTRICT_REGIONS) THEN None
    ELSE IF /\ Len(normalized_input) <= Len(normalized_key[i])
            /\ SubSeq(normalized_key[i], 1, Len(normalized_input)) = normalized_input
         THEN ISTANBUL_DISTRICT_REGIONS[i].region
    ELSE first_prefix_match(normalized_input, i + 1)

\* The lookup, had it tested normalized_key.startswith(normalized_input).
get_istanbul_district_region_startswith(district_name) ==
    first_prefix_match(normalized(district_name), 1)

RECURSIVE first_substring_match(_, _)
first_substring_match(normalized_input, i) ==
    IF i > Len(ISTANBUL_DISTRICT_REGIONS) THEN None
    ELSE IF contains(normalized_input, normalized_key[i])
         THEN ISTANBUL_DISTRICT_REGIONS[i].region
    ELSE first_substring_match(normalized_input, i + 1)

\* The lookup, had it tested normalized_key in normalized_input.
get_istanbul_district_region_substring(district_name) ==
    first_substring_match(normalized(district_name), 1)

get_istanbul_district_region(district_name) ==
    first_match(normalized(district_name), 1)

\* ------------------------------------------------------------------------
\* aytemiz/scraper.py: _merge_lpg_for_single_city
\*
\* An AytemizBenzinPriceRow is a record with the fields of the dataclass, an
\* AytemizLPGPriceRow likewise.  lpg_data, a dict, is the sequence of its
\* items in insertion order: records [key, rows] with distinct keys.

Istanbul == <<304, 115, 116, 97, 110, 98, 117, 108>>        \* I(dotted)stanbul
Istanbul_ascii == <<73, 115, 116, 97, 110, 98, 117, 108>>   \* Istanbul

\* The list ["avrupa", "anadolu"] of the region labels, lower case.
REGION_LABELS == {<<97, 118, 114, 117, 112, 97>>, <<97, 110, 97, 100, 111, 108, 117>>}

\* bool(x) of an Optional[str]
truthy(x) == x # None /\ x # <<>>

\* The copy the list comprehension makes of a row, with a field left out.
copy_row_forgetting_optimum(p) ==
    [city |-> p.city, district |-> p.district, benzin_95 |-> p.benzin_95,
     motorin |-> p.motorin, motorin_optimum |-> None,
     kalorifer_yakiti |-> p.kalorifer_yakiti, fuel_oil |-> p.fuel_oil,
     lpg |-> p.lpg]

\* AytemizBenzinPriceRow(city=p.city, ..., lpg=p.lpg)
copy_row(p) ==
    [city |-> p.city, district |-> p.district, benzin_95 |-> p.benzin_95,
     motorin |-> p.motorin, motorin_optimum |-> p.motorin_optimum,
     kalorifer_yakiti |-> p.kalorifer_yakiti, fuel_oil |-> p.fuel_oil,
     lpg |-> p.lpg]

\* lpg_rows[0].lpg if lpg_rows else None
first_lpg(lpg_rows) == IF lpg_rows # <<>> THEN lpg_rows[1].lpg ELSE None

RECURSIVE find_istanbul_lpg_defaulting(_, _, _, _)
\* The loop over lpg_data.items(), had an Istanbul key that does not name
\* Avrupa been taken for the key of Anadolu.
find_istanbul_lpg_defaulting(lpg_data, i, istanbul_lpg_avrupa, istanbul_lpg_anadolu) ==
    IF i > Len(lpg_data) THEN <<istanbul_lpg_avrupa, istanbul_lpg_anadolu>>
    ELSE
        LET normalized_lpg_key == join(<<32>>, split(lpg_data[i].key))
            price == first_lpg(lpg_data[i].rows)
        IN  IF contains(normalized_lpg_key, Istanbul)
               \/ contains(normalized_lpg_key, Istanbul_ascii)
            THEN IF contains(normalized_lpg_key, Avrupa)
                 THEN find_istanbul_lpg_defaulting(lpg_data, i + 1, price,
                                                   istanbul_lpg_anadolu)
                 ELSE find_istanbul_lpg_defaulting(lpg_data, i + 1,
                                                   istanbul_lpg_avrupa, price)
            ELSE find_istanbul_lpg_defaulting(lpg_data, i + 1, istanbul_lpg_avrupa,
                                              istanbul_lpg_anadolu)

RECURSIVE find_istanbul_lpg(_, _, _, _)
\* The loop over lpg_data.items() from entry i on: the pair
\* <<istanbul_lpg_avrupa, istanbul_lpg_anadolu>> it ends with.
find_istanbul_lpg(lpg_data, i, istanbul_lpg_avrupa, istanbul_lpg_anadolu) ==
    IF i > Len(lpg_data) THEN <<istanbul_lpg_avrupa, istanbul_lpg_anadolu>>
    ELSE
        LET normalized_lpg_key == join(<<32>>, split(lpg_data[i].key))
            price == first_lpg(lpg_data[i].rows)
        IN  IF contains(normalized_lpg_key, Istanbul)
               \/ contains(normalized_lpg_key, Istanbul_ascii)
            THEN IF contains(normalized_lpg_key, Avrupa)
                 THEN find_istanbul_lpg(lpg_data, i + 1, price, istanbul_lpg_anadolu)
                 ELSE IF contains(normalized_lpg_key, Anadolu)
                 THEN find_istanbul_lpg(lpg_data, i + 1, istanbul_lpg_avrupa, price)
                 ELSE find_istanbul_lpg(lpg_data, i + 1, istanbul_lpg_avrupa,
                                        istanbul_lpg_anadolu)
            ELSE find_istanbul_lpg(lpg_data, i + 1, istanbul_lpg_avrupa,
                                   istanbul_lpg_anadolu)

\* The loop body, had the two regions been mixed up.
merge_istanbul_row_swapped(price_row, istanbul_lpg_avrupa, istanbul_lpg_anadolu) ==
    IF ~truthy(price_row.district) THEN price_row
    ELSE IF str_lower(price_row.district) \in REGION_LABELS
    THEN price_row
    ELSE
        LET district_region == get_istanbul_district_region(price_row.district)
        IN  IF district_region = Anadolu /\ truthy(istanbul_lpg_avrupa)
            THEN [price_row EXCEPT !.lpg = istanbul_lpg_avrupa]
            ELSE IF district_region = Avrupa /\ truthy(istanbul_lpg_anadolu)
            THEN [price_row EXCEPT !.lpg = istanbul_lpg_anadolu]
            ELSE price_row

\* The loop body, had a row labelled with a region been given that region's
\* price instead of being skipped.
merge_istanbul_row_pricing_labels(price_row, istanbul_lpg_avrupa, istanbul_lpg_anadolu) ==
    IF ~truthy(price_row.district) THEN price_row
    ELSE
        LET district_region ==
                IF str_lower(price_row.district) = str_lower(Avrupa) THEN Avrupa
                ELSE IF str_lower(price_row.district) = str_lower(Anadolu) THEN Anadolu
                ELSE get_istanbul_district_region(price_row.district)
        IN  IF district_region = Avrupa /\ truthy(istanbul_lpg_avrupa)
            THEN [price_row EXCEPT !.lpg = istanbul_lpg_avrupa]
            ELSE IF district_region = Anadolu /\ truthy(istanbul_lpg_anadolu)
            THEN [price_row EXCEPT !.lpg = istanbul_lpg_anadolu]
            ELSE price_row

\* The body of "for price_row in merged_prices" in the Istanbul branch: the
\* row as the iteration leaves it.
merge_istanbul_row(price_row, istanbul_lpg_avrupa, istanbul_lpg_anadolu) ==
    IF ~truthy(price_row.district) THEN price_row
    ELSE IF str_lower(price_row.district) \in REGION_LABELS
    THEN price_row   \* continue
    ELSE
        LET district_region == get_istanbul_district_region(price_row.district)
        IN  IF district_region = Avrupa /\ truthy(istanbul_lpg_avrupa)
            THEN [price_row EXCEPT !.lpg = istanbul_lpg_avrupa]
            ELSE IF district_region = Anadolu /\ truthy(istanbul_lpg_anadolu)
            THEN [price_row EXCEPT !.lpg = istanbul_lpg_anadolu]
            ELSE price_row

RECURSIVE merge_istanbul_rows_stopping(_, _, _)
\* The loop, had it ended at the first district the lookup does not find.
merge_istanbul_rows_stopping(merged_prices, istanbul_lpg_avrupa, istanbul_lpg_anadolu) ==
    IF merged_prices = <<>> THEN <<>>
    ELSE IF /\ truthy(Head(merged_prices).district)
            /\ str_lower(Head(merged_prices).district) \notin REGION_LABELS
            /\ get_istanbul_district_region(Head(merged_prices).district) = None
    THEN merged_prices
    ELSE <<merge_istanbul_row(Head(merged_prices), istanbul_lpg_avrupa,
                              istanbul_lpg_anadolu)>>
         \o merge_istanbul_rows_stopping(Tail(merged_prices), istanbul_lpg_avrupa,
                                         istanbul_lpg_anadolu)

\* for price_row in merged_prices: ... (Istanbul branch)
merge_istanbul_rows(merged_prices, istanbul_lpg_avrupa, istanbul_lpg_anadolu) ==
    [i \in 1..Len(merged_prices) |->
        merge_istanbul_row(merged_prices[i], istanbul_lpg_avrupa, istanbul_lpg_anadolu)]

\* key in lpg_data
has_key(lpg_data, key) == \E i \in 1..Len(lpg_data) : lpg_data[i].key = key

\* lpg_data[key]
rows_of(lpg_data, key) ==
    lpg_data[CHOOSE i \in 1..Len(lpg_data) : lpg_data[i].key = key].rows

\* The else branch, had the key been matched whatever its letter case.
merge_other_city_ignoring_case(city_name, merged_prices, lpg_data) ==
    LET hits == {i \in 1..Len(lpg_data) :
                    str_lower(lpg_data[i].key) = str_lower(city_name)}
    IN  IF hits # {} /\ lpg_data[CHOOSE i \in hits : TRUE].rows # <<>>
        THEN [i \in 1..Len(merged_prices) |->
                [merged_prices[i] EXCEPT
                    !.lpg = lpg_data[CHOOSE h \in hits : TRUE].rows[1].lpg]]
        ELSE merged_prices

\* The else branch: the direct match for a city that is not Istanbul.
merge_other_city(city_name, merged_prices, lpg_data) ==
    IF has_key(lpg_data, city_name) /\ rows_of(lpg_data, city_name) # <<>>
    THEN LET lpg_price == rows_of(lpg_data, city_name)[1].lpg
         IN  [i \in 1..Len(merged_prices) |-> [merged_prices[i] EXCEPT !.lpg = lpg_price]]
    ELSE merged_prices

\* The merge, had it left the rows labelled with a region out of its result.
_merge_lpg_for_single_city_dropping_labels(city_name, benzin_prices, lpg_data) ==
    LET kept == SelectSeq(benzin_prices,
                    LAMBDA p : ~(truthy(p.district)
                                 /\ str_lower(p.district) \in REGION_LABELS))
        merged_prices == [i \in 1..Len(kept) |-> copy_row(kept[i])]
    IN  IF city_name = Istanbul
        THEN LET found == find_istanbul_lpg(lpg_data, 1, None, None)
             IN  merge_istanbul_rows(merged_prices, found[1], found[2])
        ELSE merge_other_city(city_name, merged_prices, lpg_data)

\* The list the function returns.
_merge_lpg_for_single_city(city_name, benzin_prices, lpg_data) ==
    LET merged_prices == [i \in 1..Len(benzin_prices) |-> copy_row(benzin_prices[i])]
    IN  IF city_name = Istanbul
        THEN LET found == find_istanbul_lpg(lpg_data, 1, None, None)
             IN  merge_istanbul_rows(merged_prices, found[1], found[2])
        ELSE merge_other_city(city_name, merged_prices, lpg_data)

\* ------------------------------------------------------------------------
\* aytemiz/scraper.py: _write_aytemiz_prices_to_text

\* The chain of str.replace calls, in order.
location_replacements == <<
    <<304, 73>>, <<305, 105>>, <<351, 115>>, <<350, 83>>,
    <<287, 103>>, <<286, 71>>, <<252, 117>>, <<220, 85>>,
    <<246, 111>>, <<214, 79>>, <<231, 99>>, <<199, 67>> >>

_normalize_location_name(location) ==
    strip(str_upper(replace_each(location, location_replacements)))

\* The value, had only None counted as missing: value if value is not None else '-'
or_dash_for_none_only(value) == IF value # None THEN value ELSE <<45>>

\* value if value else '-'
or_dash(value) == IF truthy(value) THEN value ELSE <<45>>

\* The list parts of one row: the location, then "Label: value" six times.
parts_of(p) ==
    LET location == IF truthy(p.district) THEN p.district ELSE p.city
    IN  << _normalize_location_name(location),
           <<66, 101, 110, 122, 105, 110, 32, 57, 53, 58, 32>>
               \o or_dash(p.benzin_95),                          \* "Benzin 95: "
           <<77, 111, 116, 111, 114, 105, 110, 58, 32>>
               \o or_dash(p.motorin),                            \* "Motorin: "
           <<77, 111, 116, 111, 114, 105, 110, 32, 79, 112, 116, 105, 109, 117, 109, 58, 32>>
               \o or_dash(p.motorin_optimum),                    \* "Motorin Optimum: "
           <<75, 97, 108, 111, 114, 105, 102, 101, 114, 32, 89, 97, 107, 305, 116, 305, 58, 32>>
               \o or_dash(p.kalorifer_yakiti),  \* "Kalorifer Yaki(dotless)ti(dotless): "
           <<70, 117, 101, 108, 32, 79, 105, 108, 58, 32>>
               \o or_dash(p.fuel_oil),                           \* "Fuel Oil: "
           <<76, 80, 71, 58, 32>> \o or_dash(p.lpg) >>           \* "LPG: "

\* The list lines: " | ".join(parts) of every row.
lines_of(prices) ==
    [i \in 1..Len(prices) |-> join(<<32, 124, 32>>, parts_of(prices[i]))]

\* The text handed to output_file.write_text: "\n".join(lines).
_write_aytemiz_prices_to_text(prices) == join(<<10>>, lines_of(prices))

\* ------------------------------------------------------------------------
\* aytemiz/scraper.py: the dropdown, the LPG dict and the file names

\* The list _get_city_options returns: the options with a value other than
\* "-1" and a text, the text stripped.  An option without a value attribute
\* has the value None.
_get_city_options(options) ==
    LET stripped == [i \in 1..Len(options) |->
                        [value |-> options[i].value, text |-> strip(options[i].text)]]
    IN  SelectSeq(stripped,
                  LAMBDA o : truthy(o.value) /\ o.value # <<45, 49>> /\ truthy(o.text))

\* f"{price_row.city} / {price_row.district}" if price_row.district else price_row.city
lpg_key(price_row) ==
    IF truthy(price_row.district)
    THEN price_row.city \o <<32, 47, 32>> \o price_row.district
    ELSE price_row.city

\* all_lpg_prices.setdefault(key, []).append(price_row)
setdefault_append(all_lpg_prices, key, price_row) ==
    IF has_key(all_lpg_prices, key)
    THEN [i \in 1..Len(all_lpg_prices) |->
            IF all_lpg_prices[i].key = key
            THEN [all_lpg_prices[i] EXCEPT !.rows = Append(@, price_row)]
            ELSE all_lpg_prices[i]]
    ELSE Append(all_lpg_prices, [key |-> key, rows |-> <<price_row>>])

RECURSIVE organize(_, _)
\* for price_row in prices: all_lpg_prices.setdefault(key, []).append(price_row)
organize(all_lpg_prices, prices) ==
    IF prices = <<>> THEN all_lpg_prices
    ELSE organize(setdefault_append(all_lpg_prices, lpg_key(Head(prices)), Head(prices)),
                  Tail(prices))

\* The loop, had it taken "Istanbul" with a plain I for the city as well.
istanbul_found_in_either_spelling(all_lpg_prices) ==
    \E i \in 1..Len(all_lpg_prices) :
        \/ contains(all_lpg_prices[i].key, Istanbul)
        \/ contains(all_lpg_prices[i].key, Istanbul_ascii)

\* The loop that sets istanbul_found: some key holds "I(dotted)stanbul".
istanbul_found(all_lpg_prices) ==
    \E i \in 1..Len(all_lpg_prices) : contains(all_lpg_prices[i].key, Istanbul)

\* city_name.split(" / ")[0]
split_first(s, sep) ==
    LET hits == {i \in 0..(Len(s) - Len(sep)) : SubSeq(s, i + 1, i + Len(sep)) = sep}
    IN  IF hits = {} THEN s
        ELSE SubSeq(s, 1, CHOOSE i \in hits : \A j \in hits : i <= j)

\* The name without its " / ..." part, its Turkish letters replaced, upper case.
_normalize_city_name_for_filename(name) ==
    LET first == IF contains(name, <<32, 47, 32>>)
                 THEN split_first(name, <<32, 47, 32>>) ELSE name
    IN  str_upper(replace_each(first, location_replacements))

\* output_dir / f"aytemiz_{normalized_name}_prices.txt", as the file's name
file_path(name) ==
    <<97, 121, 116, 101, 109, 105, 122, 95>>
        \o _normalize_city_name_for_filename(name)
        \o <<95, 112, 114, 105, 99, 101, 115, 46, 116, 120, 116>>

\* ------------------------------------------------------------------------
\* Bounds of the model

\* How many edits turn a seed into the argument of one lookup.
MaxEdits == 2

\* How many rows benzin_prices holds at most.
MaxRows == 2

\* How many keys lpg_data holds at most.
MaxLpgKeys == 2

\* How many options the city dropdown holds at most.
MaxOptions == 3

\* How many cities (pages, for petral) a fetch-all loop goes through at most.
MaxItems == 2

\* The largest value of the parameter retries.
MaxRetries == 2

\* ------------------------------------------------------------------------
\* State

VARIABLES
    district_name,   \* the argument of get_istanbul_district_region
    source_key,      \* index of the table key the argument was made from, 0 if none
    is_variant,      \* the argument is a case/diacritic/whitespace variant of that key
    edits,           \* edits applied to the seed so far
    lookup_pc,       \* "arg": building the argument, "returned": the call returned
    lookup_result,   \* what the call returned
    lpg_data,        \* the dict of LPG rows by key, as its items in insertion order
    benzin_prices,   \* the rows extracted for one city
    city_name,       \* the city the merge is called for
    merged_prices,   \* the list _merge_lpg_for_single_city returned
    file_text,       \* the text written to the city file, None before
    merge_pc,        \* "input", "merged", "written"
    run_pc,          \* where save_all_cities_prices_txt stands
    sessions,        \* the browsers launched so far: kind, open, pages created
    dropdown,        \* the option elements of the city dropdown
    city_options,    \* the list _get_city_options returned
    city_index,      \* position of city_option in city_options
    saved_files,     \* the list saved_files
    files,           \* the files of output_dir: path and text
    log,             \* the lines printed so far
    site,            \* the scraper whose fetch-all operation runs
    items,           \* the option texts / city names (petral: the pages) of the site
    retries,         \* the parameter retries (0 where there is none)
    item_index,      \* position of the loop in items
    attempt,         \* the variable attempt of the inner loop
    loop_pc,         \* where the fetch-all operation stands
    raised_in,       \* the step whose exception left the operation, "none" if none
    saved,           \* the list saved
    written,         \* the files written so far, one entry per completed write
    attempts,        \* the attempts made so far: item, attempt, outcome
    istanbul_rows,   \* sahoil: the rows kept for the merged Istanbul file
    all_rows,        \* petral: the cities of the rows fetched so far
    cli_pc,          \* where test.py stands: imports, defs, ready, running, ...
    import_pc,       \* position of the next statement in IMPORTS
    test_globals,    \* the global names of test.py and what each is bound to
    entry,           \* the function that was called, "none" before
    frame_module,    \* the module whose globals that function resolves names in
    frame_locals,    \* the local names of that function
    body,            \* the names that function calls, in order
    call_pc,         \* position of the next call in body
    output_dir,      \* the package whose prices directory is passed on
    args,            \* the parsed command line
    calls,           \* the calls made so far: function object and output_dir
    cli_error,       \* the exception that left the function, "none" if none
    page_rows,       \* the rows of the benzin table on the page: their cells
    extract_pc,      \* "page": the table is being set up, "returned"
    benzin_data,     \* the dict of benzin rows by key: the objects passed in
    merged_data,     \* the dict _merge_lpg_into_benzin returned
    dict_pc          \* "input", "merged"

lookup_vars == <<district_name, source_key, is_variant, edits, lookup_pc, lookup_result>>

merge_vars == <<lpg_data, benzin_prices, city_name, merged_prices, file_text, merge_pc>>

run_vars == <<run_pc, sessions, dropdown, city_options, city_index, saved_files,
              files, log>>

loop_vars == <<site, items, retries, item_index, attempt, loop_pc, raised_in, saved,
               written, attempts, istanbul_rows, all_rows>>

scraper_vars == <<run_vars, loop_vars>>

cli_vars == <<cli_pc, import_pc, test_globals, entry, frame_module, frame_locals,
              body, call_pc, output_dir, args, calls, cli_error>>

extract_vars == <<page_rows, extract_pc>>

dict_vars == <<benzin_data, merged_data, dict_pc>>

page_vars == <<extract_vars, dict_vars>>

vars == <<lookup_vars, merge_vars, scraper_vars, cli_vars, page_vars>>

\* No lookup is under way.
LookupIdle ==
    /\ district_name = <<>>
    /\ source_key = 0
    /\ is_variant = FALSE
    /\ edits = 0
    /\ lookup_pc = "idle"
    /\ lookup_result = None

\* No merge is under way.
MergeIdle ==
    /\ lpg_data = <<>>
    /\ benzin_prices = <<>>
    /\ city_name = None
    /\ merged_prices = <<>>
    /\ file_text = None
    /\ merge_pc = "idle"

\* save_all_cities_prices_txt is not running.
RunIdle ==
    /\ run_pc = "idle"
    /\ sessions = <<>>
    /\ dropdown = <<>>
    /\ city_options = <<>>
    /\ city_index = 0
    /\ saved_files = <<>>
    /\ files = {}
    /\ log = <<>>

\* No fetch-all loop of another scraper is running.
LoopIdle ==
    /\ site = "none"
    /\ items = <<>>
    /\ retries = 0
    /\ item_index = 0
    /\ attempt = 0
    /\ loop_pc = "idle"
    /\ raised_in = "none"
    /\ saved = <<>>
    /\ written = <<>>
    /\ attempts = <<>>
    /\ istanbul_rows = <<>>
    /\ all_rows = <<>>

\* The command line: "--all", "--city" and "--debug" as parsed.
no_args == [all |-> FALSE, city |-> FALSE, debug |-> FALSE]

\* A namespace without names.
no_names == [name \in {} |-> None]

\* test.py is not being run.
CliIdle ==
    /\ cli_pc = "idle"
    /\ import_pc = 0
    /\ test_globals = no_names
    /\ entry = "none"
    /\ frame_module = "none"
    /\ frame_locals = no_names
    /\ body = <<>>
    /\ call_pc = 0
    /\ output_dir = "none"
    /\ args = no_args
    /\ calls = <<>>
    /\ cli_error = "none"

\* No table is being extracted.
ExtractIdle ==
    /\ page_rows = <<>>
    /\ extract_pc = "idle"

\* No dict is being merged.
DictIdle ==
    /\ benzin_data = <<>>
    /\ merged_data = <<>>
    /\ dict_pc = "idle"

\* No scraper is running.
ScrapersIdle == RunIdle /\ LoopIdle /\ CliIdle /\ ExtractIdle /\ DictIdle

\* ------------------------------------------------------------------------
\* Arguments of the lookup: a table key or a free text, then edited.

\* Texts that are no table key: "", " ", the two region labels, and
\* "I(dotted)stanbul / Kadi(dotless)ko:y", "Kadi(dotless)ko:y Merkez",
\* "Kadi(dotless)".
FREE_TEXTS == {
    <<>>,
    <<32>>,
    Avrupa,
    Anadolu,
    <<304, 115, 116, 97, 110, 98, 117, 108, 32, 47, 32, 75, 97, 100, 305, 107, 246, 121>>,
    <<75, 97, 100, 305, 107, 246, 121, 32, 77, 101, 114, 107, 101, 122>>,
    <<75, 97, 100, 305>> }

\* The other-case forms of a letter, in Python's casing (i <-> I) and in
\* Turkish casing (i <-> I(dotted), i(dotless) <-> I).
case_forms(c) ==
    IF c = 105 THEN {73, 304}
    ELSE IF c = 73 THEN {105, 305}
    ELSE IF c = 305 THEN {73}
    ELSE IF c = 304 THEN {105}
    ELSE IF c \in 97..122 \cup {231, 246, 252} THEN {c - 32}
    ELSE IF c \in 65..90 \cup {199, 214, 220} THEN {c + 32}
    ELSE IF c \in {287, 351} THEN {c - 1}
    ELSE IF c \in {286, 350} THEN {c + 1}
    ELSE {}

\* Turkish upper case: i -> I(dotted), i(dotless) -> I.
upper_tr(s) == [i \in 1..Len(s) |-> IF s[i] = 105 THEN 304 ELSE upper_char(s[i])]

\* Turkish lower case: I -> i(dotless), I(dotted) -> i.
lower_tr(s) ==
    [i \in 1..Len(s) |->
        IF s[i] = 73 THEN 305 ELSE IF s[i] = 304 THEN 105 ELSE lower_char(s[i])[1]]

\* The whole-string case changes.
case_all(s) == {str_upper(s), upper_tr(s), str_lower(s), lower_tr(s)} \ {s}

\* The ASCII equivalent of a Turkish letter (the replacements table), else c.
ascii_form(c) ==
    IF \E r \in 1..Len(replacements) : replacements[r][1] = c
    THEN replacements[CHOOSE r \in 1..Len(replacements) : replacements[r][1] = c][2]
    ELSE c

set_char(s, i, c) == [s EXCEPT ![i] = c]

insert_char(s, i, c) == SubSeq(s, 1, i) \o <<c>> \o SubSeq(s, i + 1, Len(s))

LookupInit ==
    /\ \/ \E k \in 1..Len(ISTANBUL_DISTRICT_REGIONS) :
            /\ district_name = ISTANBUL_DISTRICT_REGIONS[k].key
            /\ source_key = k
            /\ is_variant = TRUE
       \/ /\ district_name \in FREE_TEXTS
          /\ source_key = 0
          /\ is_variant = FALSE
    /\ edits = 0
    /\ lookup_pc = "arg"
    /\ lookup_result = None

\* One edit that keeps the argument a variant of its key.
Edit(s) ==
    /\ lookup_pc = "arg"
    /\ edits < MaxEdits
    /\ s # district_name
    /\ district_name' = s
    /\ edits' = edits + 1
    /\ UNCHANGED <<source_key, is_variant, lookup_pc, lookup_result, merge_vars,
                   scraper_vars, cli_vars, page_vars>>

\* Change the case of one letter.
ChangeCase ==
    \E i \in 1..Len(district_name) : \E c \in case_forms(district_name[i]) :
        Edit(set_char(district_name, i, c))

\* Change the case of the whole text.
ChangeCaseAll == \E s \in case_all(district_name) : Edit(s)

\* Replace one Turkish letter by its ASCII equivalent.
ToAscii ==
    \E i \in 1..Len(district_name) :
        Edit(set_char(district_name, i, ascii_form(district_name[i])))

\* Replace every Turkish letter by its ASCII equivalent.
ToAsciiAll ==
    \E s \in {[i \in 1..Len(district_name) |-> ascii_form(district_name[i])]} : Edit(s)

\* Add a whitespace character before, after, or next to inner whitespace.
AddWhitespace ==
    \E i \in 0..Len(district_name) : \E w \in {32, 9} :
        /\ IF i = 0 \/ i = Len(district_name) THEN TRUE
           ELSE district_name[i] \in WHITESPACE \/ district_name[i + 1] \in WHITESPACE
        /\ Edit(insert_char(district_name, i, w))

\* An edit after which the argument is no variant of a key any more:
\* drop the last character, append a letter, or break a word by a space.
Damage ==
    /\ lookup_pc = "arg"
    /\ edits < MaxEdits
    /\ district_name # <<>>
    /\ \/ district_name' = SubSeq(district_name, 1, Len(district_name) - 1)
       \/ district_name' = Append(district_name, 120)
       \/ \E i \in 1..(Len(district_name) - 1) :
            /\ district_name[i] \notin WHITESPACE
            /\ district_name[i + 1] \notin WHITESPACE
            /\ district_name' = insert_char(district_name, i, 32)
    /\ is_variant' = FALSE
    /\ edits' = edits + 1
    /\ UNCHANGED <<source_key, lookup_pc, lookup_result, merge_vars, scraper_vars,
                   cli_vars, page_vars>>

\* The call get_istanbul_district_region(district_name).
Lookup ==
    /\ lookup_pc = "arg"
    /\ lookup_result' = get_istanbul_district_region(district_name)
    /\ lookup_pc' = "returned"
    /\ UNCHANGED <<district_name, source_key, is_variant, edits, merge_vars,
                   scraper_vars, cli_vars, page_vars>>

LookupNext ==
    \/ ChangeCase
    \/ ChangeCaseAll
    \/ ToAscii
    \/ ToAsciiAll
    \/ AddWhitespace
    \/ Damage
    \/ Lookup

\* Only lookups happen.
LookupOnlyInit == LookupInit /\ MergeIdle /\ ScrapersIdle

LookupSpec == LookupOnlyInit /\ [][LookupNext]_vars

\* ------------------------------------------------------------------------
\* Arguments of the merge: lpg_data is filled key by key, then benzin_prices
\* row by row, then the merge is called for a city and its result written.

\* A benzin row with prices that tell row n from the others ("43.1n", ...);
\* the cell of kalorifer_yakiti is empty in the odd rows.
benzin_row(city, district, n, lpg) ==
    [city |-> city, district |-> district,
     benzin_95 |-> <<52, 51, 46, 49, 48 + n>>,
     motorin |-> <<52, 52, 46, 50, 48 + n>>,
     motorin_optimum |-> <<52, 53, 46, 51, 48 + n>>,
     kalorifer_yakiti |-> IF n % 2 = 1 THEN <<>> ELSE <<51, 57, 46, 52, 48 + n>>,
     fuel_oil |-> <<51, 48, 46, 53, 48 + n>>,
     lpg |-> lpg]

\* An earlier LPG value of a row: "9.99".
OLD_LPG == <<57, 46, 57, 57>>

\* Rows of the districts Kadi(dotless)ko:y (Anadolu) and Bes,iktas, (Avrupa),
\* of the labels "Avrupa" and "ANADOLU", of "Merkez" (no district of the
\* table), and a row of Ankara without district.
BENZIN_ROWS == {
    benzin_row(Istanbul, <<75, 97, 100, 305, 107, 246, 121>>, 1, None),
    benzin_row(Istanbul, <<66, 101, 351, 105, 107, 116, 97, 351>>, 2, OLD_LPG),
    benzin_row(Istanbul, Avrupa, 3, OLD_LPG),
    benzin_row(Istanbul, <<65, 78, 65, 68, 79, 76, 85>>, 4, None),
    benzin_row(Istanbul, <<77, 101, 114, 107, 101, 122>>, 5, OLD_LPG),
    benzin_row(<<65, 110, 107, 97, 114, 97>>, None, 6, None) }

lpg_row(city, district, lpg) == [city |-> city, district |-> district, lpg |-> lpg]

Ankara == <<65, 110, 107, 97, 114, 97>>

\* "I(dotted)stanbul / Avrupa", "I(dotted)stanbul / Anadolu", "Istanbul/Avrupa"
KEY_AVRUPA == Istanbul \o <<32, 47, 32>> \o Avrupa
KEY_ANADOLU == Istanbul \o <<32, 47, 32>> \o Anadolu
KEY_AVRUPA_ascii == Istanbul_ascii \o <<47>> \o Avrupa

\* What lpg_data may hold under a key: one row, several rows, no row, a row
\* with an empty price.  The prices are "17.90", "18.50", "18.60", "17.95",
\* "17.00", "16.00", "16.10", "16.05", "16.20".
LPG_ENTRIES == {
    [key |-> KEY_AVRUPA, rows |-> <<lpg_row(Istanbul, Avrupa, <<49, 55, 46, 57, 48>>)>>],
    [key |-> KEY_AVRUPA, rows |-> <<>>],
    [key |-> KEY_ANADOLU,
     rows |-> <<lpg_row(Istanbul, Anadolu, <<49, 56, 46, 53, 48>>),
                lpg_row(Istanbul, Anadolu, <<49, 56, 46, 54, 48>>)>>],
    [key |-> KEY_ANADOLU, rows |-> <<lpg_row(Istanbul, Anadolu, <<>>)>>],
    [key |-> KEY_AVRUPA_ascii,
     rows |-> <<lpg_row(Istanbul_ascii, Avrupa, <<49, 55, 46, 57, 53>>)>>],
    [key |-> Istanbul, rows |-> <<lpg_row(Istanbul, None, <<49, 55, 46, 48, 48>>)>>],
    [key |-> Ankara,
     rows |-> <<lpg_row(Ankara, None, <<49, 54, 46, 48, 48>>),
                lpg_row(Ankara, None, <<49, 54, 46, 49, 48>>)>>],
    [key |-> Ankara, rows |-> <<>>],
    [key |-> str_lower(Ankara),
     rows |-> <<lpg_row(str_lower(Ankara), None, <<49, 54, 46, 48, 53>>)>>],
    [key |-> Ankara \o <<32>>,
     rows |-> <<lpg_row(Ankara \o <<32>>, None, <<49, 54, 46, 50, 48>>)>>] }

\* The cities the merge is called for: "I(dotted)stanbul", "Istanbul", "Ankara".
CITY_NAMES == {Istanbul, Istanbul_ascii, Ankara}

MergeInit ==
    /\ lpg_data = <<>>
    /\ benzin_prices = <<>>
    /\ city_name = None
    /\ merged_prices = <<>>
    /\ file_text = None
    /\ merge_pc = "input"

\* lpg_data gets one more key.
AddLpgEntry ==
    \E e \in LPG_ENTRIES :
        /\ merge_pc = "input"
        /\ benzin_prices = <<>>
        /\ Len(lpg_data) < MaxLpgKeys
        /\ ~has_key(lpg_data, e.key)
        /\ lpg_data' = Append(lpg_data, e)
        /\ UNCHANGED <<benzin_prices, city_name, merged_prices, file_text, merge_pc,
                       lookup_vars, scraper_vars, cli_vars, page_vars>>

\* benzin_prices gets one more row.
AddBenzinRow ==
    \E r \in BENZIN_ROWS :
        /\ merge_pc = "input"
        /\ Len(benzin_prices) < MaxRows
        /\ \A i \in 1..Len(benzin_prices) : benzin_prices[i] # r
        /\ benzin_prices' = Append(benzin_prices, r)
        /\ UNCHANGED <<lpg_data, city_name, merged_prices, file_text, merge_pc,
                       lookup_vars, scraper_vars, cli_vars, page_vars>>

\* The call _merge_lpg_for_single_city(city_name, benzin_prices, lpg_data).
\* It builds new rows: those of benzin_prices, and lpg_data, stay as they are.
MergeSingleCity ==
    \E c \in CITY_NAMES :
        /\ merge_pc = "input"
        /\ city_name' = c
        /\ merged_prices' = _merge_lpg_for_single_city(c, benzin_prices, lpg_data)
        /\ merge_pc' = "merged"
        /\ UNCHANGED <<lpg_data, benzin_prices, file_text, lookup_vars, scraper_vars,
                       cli_vars, page_vars>>

\* The call _write_aytemiz_prices_to_text(merged_prices, fp).
WriteText ==
    /\ merge_pc = "merged"
    /\ file_text' = _write_aytemiz_prices_to_text(merged_prices)
    /\ merge_pc' = "written"
    /\ UNCHANGED <<lpg_data, benzin_prices, city_name, merged_prices, lookup_vars,
                   scraper_vars, cli_vars, page_vars>>

MergeNext ==
    \/ AddLpgEntry
    \/ AddBenzinRow
    \/ MergeSingleCity
    \/ WriteText

\* Only merges happen.
MergeOnlyInit == MergeInit /\ LookupIdle /\ ScrapersIdle

MergeSpec == MergeOnlyInit /\ [][MergeNext]_vars

\* ------------------------------------------------------------------------
\* aytemiz/scraper.py: save_all_cities_prices_txt, one step per call that can
\* fail or that answers with what the site shows.

\* The option elements the dropdown may hold: the placeholder (value "-1",
\* "Sec,iniz"), " I(dotted)stanbul " (value "34"), "Ankara" (value "6"),
\* "Adana" (value "1").
RAW_OPTIONS == {
    [value |-> <<45, 49>>, text |-> <<83, 101, 231, 105, 110, 105, 122>>],
    [value |-> <<51, 52>>, text |-> <<32>> \o Istanbul \o <<32>>],
    [value |-> <<54>>, text |-> Ankara],
    [value |-> <<49>>, text |-> <<65, 100, 97, 110, 97>>] }

\* What _extract_lpg_prices_from_page may find on the main page: nothing; both
\* regions of Istanbul and Ankara; two rows of Ankara (the second from the
\* cell "Ankara /", so with the district "") and a row of "Istanbul / Avrupa"
\* spelled with a plain I.
LPG_TABLES == {
    <<>>,
    << lpg_row(Istanbul, Avrupa, <<49, 55, 46, 57, 48>>),
       lpg_row(Istanbul, Anadolu, <<49, 56, 46, 53, 48>>),
       lpg_row(Ankara, None, <<49, 54, 46, 48, 48>>) >>,
    << lpg_row(Ankara, None, <<49, 54, 46, 48, 48>>),
       lpg_row(Ankara, <<>>, <<49, 54, 46, 49, 48>>),
       lpg_row(Istanbul_ascii, Avrupa, <<49, 55, 46, 57, 53>>) >> }

\* What it may find once Istanbul is selected: nothing, or the two regions.
ISTANBUL_LPG_TABLES == {
    <<>>,
    << lpg_row(Istanbul, Avrupa, <<49, 55, 46, 49, 48>>),
       lpg_row(Istanbul, Anadolu, <<49, 56, 46, 50, 48>>) >> }

\* What _extract_benzin_prices_from_page may return for a city: no row, or
\* the rows of the city (for Istanbul a district and a region label).
BENZIN_TABLES(city) == {
    <<>>,
    IF city = Istanbul
    THEN << benzin_row(Istanbul, <<75, 97, 100, 305, 107, 246, 121>>, 1, None),
            benzin_row(Istanbul, Avrupa, 3, None) >>
    ELSE << benzin_row(city, None, 6, None) >> }

\* print(...): one more line, with the city it is about and the page in use.
printed(msg, city) ==
    Append(log, [msg |-> msg, city |-> city, page |-> Len(sessions)])

\* p.chromium.launch(...)
launch(kind) == Append(sessions, [kind |-> kind, open |-> TRUE, pages |-> 0])

\* context.new_page()
new_page == [sessions EXCEPT ![Len(sessions)].pages = @ + 1]

\* browser.close(); leaving "with sync_playwright() as p" closes the browser
\* launched inside it as well.
closed(kind) ==
    [i \in 1..Len(sessions) |->
        IF sessions[i].kind = kind THEN [sessions[i] EXCEPT !.open = FALSE]
        ELSE sessions[i]]

\* The dropdown the site shows: distinct options, in some order.
RunInit ==
    /\ run_pc = "mkdir"
    /\ sessions = <<>>
    /\ dropdown \in UNION {[1..n -> RAW_OPTIONS] : n \in 0..MaxOptions}
    /\ \A i, j \in 1..Len(dropdown) : i # j => dropdown[i] # dropdown[j]
    /\ city_options = <<>>
    /\ city_index = 0
    /\ saved_files = <<>>
    /\ files = {}
    /\ log = <<>>
    /\ lpg_data = <<>>
    /\ benzin_prices = <<>>
    /\ city_name = None
    /\ merged_prices = <<>>
    /\ file_text = None
    /\ merge_pc = "idle"

\* output_dir.mkdir(parents=True, exist_ok=True), before the try.
Mkdir ==
    /\ run_pc = "mkdir"
    /\ run_pc' = "lpg_launch"
    /\ log' = printed("Fetching all LPG prices...", None)
    /\ UNCHANGED <<sessions, dropdown, city_options, city_index, saved_files, files,
                   merge_vars, lookup_vars, loop_vars, cli_vars, page_vars>>

\* mkdir raises: the exception leaves the function.
MkdirFails ==
    /\ run_pc = "mkdir"
    /\ run_pc' = "raised"
    /\ UNCHANGED <<sessions, dropdown, city_options, city_index, saved_files, files,
                   log, merge_vars, lookup_vars, loop_vars, cli_vars,
                   page_vars>>

\* _fetch_all_lpg_prices_dict: browser = p.chromium.launch(...)
LpgLaunch ==
    /\ run_pc = "lpg_launch"
    /\ sessions' = launch("lpg")
    /\ run_pc' = "lpg_page"
    /\ UNCHANGED <<dropdown, city_options, city_index, saved_files, files, log,
                   merge_vars, lookup_vars, loop_vars, cli_vars, page_vars>>

\* context = browser.new_context(...); page = context.new_page()
LpgNewPage ==
    /\ run_pc = "lpg_page"
    /\ sessions' = new_page
    /\ run_pc' = "lpg_goto"
    /\ UNCHANGED <<dropdown, city_options, city_index, saved_files, files, log,
                   merge_vars, lookup_vars, loop_vars, cli_vars, page_vars>>

\* page.goto(AYTEMIZ_URL); _ensure_cookie_accepted(page); page.wait_for_timeout(2000)
LpgGoto ==
    /\ run_pc = "lpg_goto"
    /\ run_pc' = "lpg_click"
    /\ log' = printed("Navigating to", None)
    /\ UNCHANGED <<sessions, dropdown, city_options, city_index, saved_files, files,
                   merge_vars, lookup_vars, loop_vars, cli_vars, page_vars>>

\* A call of _fetch_all_lpg_prices_dict outside every try raises: the with
\* block is left, and "except Exception" of save_all_cities_prices_txt
\* prints the error; saved_files is returned.
LpgFetchFails ==
    /\ run_pc \in {"lpg_launch", "lpg_page", "lpg_goto"}
    /\ sessions' = closed("lpg")
    /\ log' = printed("Error in save_all_cities_prices_txt", None)
    /\ run_pc' = "returned"
    /\ UNCHANGED <<dropdown, city_options, city_index, saved_files, files,
                   merge_vars, lookup_vars, loop_vars, cli_vars, page_vars>>

\* The click of the LPG button, had a button that cannot be clicked ended
\* the whole run instead of the LPG fetch.
LpgClick_ending_run ==
    \E clicked \in BOOLEAN :
        /\ run_pc = "lpg_click"
        /\ IF clicked
           THEN /\ run_pc' = "lpg_extract"
                /\ log' = printed("Waiting for LPG price table to load...", None)
                /\ UNCHANGED <<sessions, lpg_data, cli_vars, page_vars>>
           ELSE /\ sessions' = closed("lpg")
                /\ lpg_data' = <<>>
                /\ log' = Append(printed("Could not switch to LPG prices. Exiting LPG fetch.",
                                         None),
                                 [msg |-> "Fetched LPG data", city |-> None,
                                  page |-> Len(sessions)])
                /\ run_pc' = "returned"
        /\ UNCHANGED <<dropdown, city_options, city_index, saved_files, files,
                       benzin_prices, city_name, merged_prices, file_text, merge_pc,
                       lookup_vars, loop_vars, cli_vars, page_vars>>

\* if not _click_lpg_button(page, debug): browser.close(); return {}
LpgClick ==
    \E clicked \in BOOLEAN :
        /\ run_pc = "lpg_click"
        /\ IF clicked
           THEN /\ run_pc' = "lpg_extract"
                /\ log' = printed("Waiting for LPG price table to load...", None)
                /\ UNCHANGED <<sessions, lpg_data, cli_vars, page_vars>>
           ELSE /\ sessions' = closed("lpg")
                /\ lpg_data' = <<>>
                /\ log' = Append(printed("Could not switch to LPG prices. Exiting LPG fetch.",
                                         None),
                                 [msg |-> "Fetched LPG data", city |-> None,
                                  page |-> Len(sessions)])
                /\ run_pc' = "benzin_launch"
        /\ UNCHANGED <<dropdown, city_options, city_index, saved_files, files,
                       benzin_prices, city_name, merged_prices, file_text, merge_pc,
                       lookup_vars, loop_vars, cli_vars, page_vars>>

\* prices = _extract_lpg_prices_from_page(page), organized by key.  The dict
\* all_lpg_prices is the one save_all_cities_prices_txt then calls lpg_data.
LpgExtract ==
    \E prices \in LPG_TABLES :
        /\ run_pc = "lpg_extract"
        /\ lpg_data' = organize(<<>>, prices)
        /\ log' = printed("Extracting LPG prices from main page...", None)
        /\ run_pc' = IF istanbul_found(lpg_data') THEN "lpg_close" ELSE "lpg_istanbul"
        /\ UNCHANGED <<sessions, dropdown, city_options, city_index, saved_files,
                       files, benzin_prices, city_name, merged_prices, file_text,
                       merge_pc, lookup_vars, loop_vars, cli_vars, page_vars>>

\* if not istanbul_found: select Istanbul and extract again, inside a try.
LpgIstanbul ==
    \E istanbul_prices \in ISTANBUL_LPG_TABLES :
        /\ run_pc = "lpg_istanbul"
        /\ lpg_data' = organize(lpg_data, istanbul_prices)
        /\ log' = printed("Istanbul LPG prices not found in main table.", None)
        /\ run_pc' = "lpg_close"
        /\ UNCHANGED <<sessions, dropdown, city_options, city_index, saved_files,
                       files, benzin_prices, city_name, merged_prices, file_text,
                       merge_pc, lookup_vars, loop_vars, cli_vars, page_vars>>

\* _select_city_and_wait_for_load raises there: caught by the try around it.
LpgIstanbulFails ==
    /\ run_pc = "lpg_istanbul"
    /\ log' = Append(printed("Istanbul LPG prices not found in main table.", None),
                     [msg |-> "Error fetching Istanbul LPG prices", city |-> None,
                      page |-> Len(sessions)])
    /\ run_pc' = "lpg_close"
    /\ UNCHANGED <<sessions, dropdown, city_options, city_index, saved_files, files,
                   merge_vars, lookup_vars, loop_vars, cli_vars, page_vars>>

\* The return of the LPG fetch, had the browser been left open (no
\* browser.close() and no with block around the session).
LpgClose_leaving_browser_open ==
    /\ run_pc = "lpg_close"
    /\ log' = printed("Fetched LPG data", None)
    /\ run_pc' = "benzin_launch"
    /\ UNCHANGED <<sessions, dropdown, city_options, city_index, saved_files, files,
                   merge_vars, lookup_vars, loop_vars, cli_vars, page_vars>>

\* browser.close(); return all_lpg_prices
LpgClose ==
    /\ run_pc = "lpg_close"
    /\ sessions' = closed("lpg")
    /\ log' = printed("Fetched LPG data", None)
    /\ run_pc' = "benzin_launch"
    /\ UNCHANGED <<dropdown, city_options, city_index, saved_files, files,
                   merge_vars, lookup_vars, loop_vars, cli_vars, page_vars>>

\* Step 2: browser = p.chromium.launch(...)
BenzinLaunch ==
    /\ run_pc = "benzin_launch"
    /\ sessions' = launch("benzin")
    /\ log' = printed("Fetching benzin prices and writing files...", None)
    /\ run_pc' = "benzin_page"
    /\ UNCHANGED <<dropdown, city_options, city_index, saved_files, files,
                   merge_vars, lookup_vars, loop_vars, cli_vars, page_vars>>

\* context = browser.new_context(...); page = context.new_page()
BenzinNewPage ==
    /\ run_pc = "benzin_page"
    /\ sessions' = new_page
    /\ run_pc' = "benzin_goto"
    /\ UNCHANGED <<dropdown, city_options, city_index, saved_files, files, log,
                   merge_vars, lookup_vars, loop_vars, cli_vars, page_vars>>

\* page.goto(...); page.wait_for_selector(the dropdown);
\* city_options = _get_city_options(page); the for loop starts.
BenzinGoto ==
    /\ run_pc = "benzin_goto"
    /\ city_options' = _get_city_options(dropdown)
    /\ city_index' = 1
    /\ log' = printed("Navigating to", None)
    /\ run_pc' = IF city_options' = <<>> THEN "close" ELSE "select"
    /\ UNCHANGED <<sessions, dropdown, saved_files, files, merge_vars, lookup_vars, loop_vars,
                   cli_vars, page_vars>>

\* A call of the with block outside the per-city try raises: launch,
\* new_context, new_page, goto, wait_for_selector, _get_city_options, or
\* page.wait_for_timeout after a city.  The with block is left and
\* "except Exception" prints the error; saved_files is returned.
BenzinSessionFails ==
    /\ run_pc \in {"benzin_launch", "benzin_page", "benzin_goto", "pause"}
    /\ sessions' = closed("benzin")
    /\ log' = printed("Error in save_all_cities_prices_txt", None)
    /\ run_pc' = "returned"
    /\ UNCHANGED <<dropdown, city_options, city_index, saved_files, files,
                   merge_vars, lookup_vars, loop_vars, cli_vars, page_vars>>

\* The selection, had it opened a page of its own for the city.
SelectCity_on_new_page ==
    /\ run_pc = "select"
    /\ city_name' = strip(city_options[city_index].text)
    /\ sessions' = new_page
    /\ log' = printed("Fetching Benzin prices for city", city_name')
    /\ run_pc' = "extract"
    /\ UNCHANGED <<dropdown, city_options, city_index, saved_files, files,
                   lpg_data, benzin_prices, merged_prices, file_text, merge_pc,
                   lookup_vars, loop_vars, cli_vars, page_vars>>

\* city_name = city_option["text"].strip();
\* _select_city_and_wait_for_load(page, city_value, debug)
SelectCity ==
    /\ run_pc = "select"
    /\ city_name' = strip(city_options[city_index].text)
    /\ log' = printed("Fetching Benzin prices for city", city_name')
    /\ run_pc' = "extract"
    /\ UNCHANGED <<sessions, dropdown, city_options, city_index, saved_files, files,
                   lpg_data, benzin_prices, merged_prices, file_text, merge_pc,
                   lookup_vars, loop_vars, cli_vars, page_vars>>

\* The selection raises, had the try of the city enclosed the for loop: the
\* error is printed and the loop is over.
SelectCityFails_ending_loop ==
    /\ run_pc = "select"
    /\ city_name' = strip(city_options[city_index].text)
    /\ log' = Append(printed("Fetching Benzin prices for city", city_name'),
                     [msg |-> "Error fetching prices for", city |-> city_name',
                      page |-> Len(sessions)])
    /\ run_pc' = "close"
    /\ UNCHANGED <<sessions, dropdown, city_options, city_index, saved_files, files,
                   lpg_data, benzin_prices, merged_prices, file_text, merge_pc,
                   lookup_vars, loop_vars, cli_vars, page_vars>>

\* The selection raises (the forced postback after a timeout fails): caught
\* by "except Exception" of the city.
SelectCityFails ==
    /\ run_pc = "select"
    /\ city_name' = strip(city_options[city_index].text)
    /\ log' = Append(printed("Fetching Benzin prices for city", city_name'),
                     [msg |-> "Error fetching prices for", city |-> city_name',
                      page |-> Len(sessions)])
    /\ run_pc' = "pause"
    /\ UNCHANGED <<sessions, dropdown, city_options, city_index, saved_files, files,
                   lpg_data, benzin_prices, merged_prices, file_text, merge_pc,
                   lookup_vars, loop_vars, cli_vars, page_vars>>

\* benzin_prices = _extract_benzin_prices_from_page(page, city_name), which
\* catches what goes wrong and returns the rows it has; then "if benzin_prices".
ExtractBenzin ==
    \E prices \in BENZIN_TABLES(city_name) :
        /\ run_pc = "extract"
        /\ benzin_prices' = prices
        /\ IF prices # <<>>
           THEN /\ log' = printed("Found price row(s) for", city_name)
                /\ run_pc' = "merge"
           ELSE /\ log' = printed("Warning: No Benzin prices found for", city_name)
                /\ run_pc' = "pause"
        /\ UNCHANGED <<sessions, dropdown, city_options, city_index, saved_files,
                       files, lpg_data, city_name, merged_prices, file_text, merge_pc,
                       lookup_vars, loop_vars, cli_vars, page_vars>>

\* merged_prices = _merge_lpg_for_single_city(city_name, benzin_prices, lpg_data)
MergeCity ==
    /\ run_pc = "merge"
    /\ merged_prices' = _merge_lpg_for_single_city(city_name, benzin_prices, lpg_data)
    /\ run_pc' = "write"
    /\ UNCHANGED <<sessions, dropdown, city_options, city_index, saved_files, files,
                   log, lpg_data, benzin_prices, city_name, file_text, merge_pc,
                   lookup_vars, loop_vars, cli_vars, page_vars>>

\* An exception inside the merge call: caught by "except Exception" of the city.
MergeCityFails ==
    /\ run_pc = "merge"
    /\ log' = printed("Error fetching prices for", city_name)
    /\ run_pc' = "pause"
    /\ UNCHANGED <<sessions, dropdown, city_options, city_index, saved_files, files,
                   merge_vars, lookup_vars, loop_vars, cli_vars, page_vars>>

\* The write of a city, had it been put off until after the loop: the path
\* is kept and the line printed, the file is not there yet.
WriteFile_after_loop ==
    /\ run_pc = "write"
    /\ file_text' = _write_aytemiz_prices_to_text(merged_prices)
    /\ saved_files' = Append(saved_files, file_path(city_name))
    /\ log' = printed("Saved", city_name)
    /\ run_pc' = "pause"
    /\ UNCHANGED <<sessions, dropdown, city_options, city_index, files, lpg_data,
                   benzin_prices, city_name, merged_prices, merge_pc, lookup_vars, loop_vars,
                   cli_vars, page_vars>>

\* _write_aytemiz_prices_to_text(merged_prices, fp); saved_files.append(fp)
WriteFile ==
    /\ run_pc = "write"
    /\ file_text' = _write_aytemiz_prices_to_text(merged_prices)
    /\ files' = {f \in files : f.path # file_path(city_name)}
                    \cup {[path |-> file_path(city_name), text |-> file_text']}
    /\ saved_files' = Append(saved_files, file_path(city_name))
    /\ log' = printed("Saved", city_name)
    /\ run_pc' = "pause"
    /\ UNCHANGED <<sessions, dropdown, city_options, city_index, lpg_data,
                   benzin_prices, city_name, merged_prices, merge_pc, lookup_vars, loop_vars,
                   cli_vars, page_vars>>

\* The failed write, had the path been appended before the file is written.
WriteFileFails_after_append ==
    \E opened \in BOOLEAN :
        /\ run_pc = "write"
        /\ files' = IF opened
                    THEN {f \in files : f.path # file_path(city_name)}
                             \cup {[path |-> file_path(city_name), text |-> <<>>]}
                    ELSE files
        /\ saved_files' = Append(saved_files, file_path(city_name))
        /\ log' = printed("Error writing file for", city_name)
        /\ run_pc' = "pause"
        /\ UNCHANGED <<sessions, dropdown, city_options, city_index, merge_vars,
                       lookup_vars, loop_vars, cli_vars, page_vars>>

\* write_text raises: caught by the try around the write.  The file was not
\* opened, or it was opened (and so emptied) and the writing failed.
WriteFileFails ==
    \E opened \in BOOLEAN :
        /\ run_pc = "write"
        /\ files' = IF opened
                    THEN {f \in files : f.path # file_path(city_name)}
                             \cup {[path |-> file_path(city_name), text |-> <<>>]}
                    ELSE files
        /\ log' = printed("Error writing file for", city_name)
        /\ run_pc' = "pause"
        /\ UNCHANGED <<sessions, dropdown, city_options, city_index, saved_files,
                       merge_vars, lookup_vars, loop_vars, cli_vars, page_vars>>

\* page.wait_for_timeout(random.uniform(500, 1500)), then the next city_option
Pause ==
    /\ run_pc = "pause"
    /\ city_index' = city_index + 1
    /\ run_pc' = IF city_index' > Len(city_options) THEN "close" ELSE "select"
    /\ UNCHANGED <<sessions, dropdown, city_options, saved_files, files, log,
                   merge_vars, lookup_vars, loop_vars, cli_vars, page_vars>>

\* browser.close(); return saved_files
BenzinClose ==
    /\ run_pc = "close"
    /\ sessions' = closed("benzin")
    /\ run_pc' = "returned"
    /\ UNCHANGED <<dropdown, city_options, city_index, saved_files, files, log,
                   merge_vars, lookup_vars, loop_vars, cli_vars, page_vars>>

RunNext ==
    \/ Mkdir
    \/ MkdirFails
    \/ LpgLaunch
    \/ LpgNewPage
    \/ LpgGoto
    \/ LpgFetchFails
    \/ LpgClick
    \/ LpgExtract
    \/ LpgIstanbul
    \/ LpgIstanbulFails
    \/ LpgClose
    \/ BenzinLaunch
    \/ BenzinNewPage
    \/ BenzinGoto
    \/ BenzinSessionFails
    \/ SelectCity
    \/ SelectCityFails
    \/ ExtractBenzin
    \/ MergeCity
    \/ MergeCityFails
    \/ WriteFile
    \/ WriteFileFails
    \/ Pause
    \/ BenzinClose

\* Only save_all_cities_prices_txt runs.
RunOnlyInit ==
    RunInit /\ LookupIdle /\ LoopIdle /\ CliIdle /\ ExtractIdle /\ DictIdle

RunSpec == RunOnlyInit /\ [][RunNext]_vars

\* ------------------------------------------------------------------------
\* The fetch-all loops of petral, opet, sahoil, petrolofisi, shell and
\* turkiyepetrolleri: one step per attempt, pause and write.

\* str.startswith(prefix)
startswith(s, prefix) ==
    Len(prefix) <= Len(s) /\ SubSeq(s, 1, Len(prefix)) = prefix

\* sahoil: (text or "").strip().upper().startswith("ISTANBUL")
sahoil_is_istanbul_variant(text) ==
    startswith(str_upper(strip(text)), <<73, 83, 84, 65, 78, 66, 85, 76>>)

\* petral: up.startswith("ISTANBUL") or up.startswith("I(dotted)STANBUL")
petral_is_istanbul_variant(name) ==
    LET up == str_upper(strip(name))
    IN  \/ startswith(up, <<73, 83, 84, 65, 78, 66, 85, 76>>)
        \/ startswith(up, <<304, 83, 84, 65, 78, 66, 85, 76>>)

\* petral: _normalize_city_key
_normalize_city_key(name) ==
    IF petral_is_istanbul_variant(strip(name)) THEN Istanbul ELSE strip(name)

RECURSIVE city_map_keys(_, _)
\* petral: the keys of city_map, in the order the loop over all_rows first
\* meets them; a row without city is passed over.
city_map_keys(keys, rows) ==
    IF rows = <<>> THEN keys
    ELSE LET key == _normalize_city_key(Head(rows))
         IN  IF Head(rows) = <<>> \/ \E i \in 1..Len(keys) : keys[i] = key
             THEN city_map_keys(keys, Tail(rows))
             ELSE city_map_keys(Append(keys, key), Tail(rows))

\* The scrapers with an inner loop "for attempt in range(retries + 1)".
RETRY_SITES == {"petrolofisi", "shell", "turkiyepetrolleri"}

SITES == RETRY_SITES \cup {"petral", "opet", "sahoil"}

\* The names a site may list: "ADANA", "Ankara", "Istanbul (Anadolu)",
\* "ISTANBUL".
ITEM_TEXTS == {
    <<65, 68, 65, 78, 65>>,
    Ankara,
    <<73, 115, 116, 97, 110, 98, 117, 108, 32, 40, 65, 110, 97, 100, 111, 108, 117, 41>>,
    <<73, 83, 84, 65, 78, 66, 85, 76>> }

\* petral: the cities of the rows one page may hold: "Ankara"; "ISTANBUL"
\* and "I(dotted)stanbul"; a row without city and "Ankara".
PETRAL_PAGES == {
    <<Ankara>>,
    << <<73, 83, 84, 65, 78, 66, 85, 76>>, Istanbul >>,
    << <<>>, Ankara >> }

\* A site, what it lists, and the parameter retries.
LoopInit ==
    /\ site \in SITES
    /\ items \in UNION {[1..n -> IF site = "petral" THEN PETRAL_PAGES ELSE ITEM_TEXTS] :
                           n \in (IF site = "petral" THEN 1 ELSE 0)..MaxItems}
    /\ retries \in IF site \in RETRY_SITES THEN 0..MaxRetries ELSE {0}
    /\ item_index = 0
    /\ attempt = 0
    /\ loop_pc = "setup"
    /\ raised_in = "none"
    /\ saved = <<>>
    /\ written = <<>>
    /\ attempts = <<>>
    /\ istanbul_rows = <<>>
    /\ all_rows = <<>>

\* The exception of the step at loop_pc leaves the operation: none of the six
\* functions has a try around the step.
raise ==
    /\ raised_in' = loop_pc
    /\ loop_pc' = "raised"

\* One more entry of attempts.
attempted(ok) ==
    Append(attempts, [item |-> item_index, attempt |-> attempt, ok |-> ok])

\* Everything before the loop: launch, new_page, goto, the list of cities
\* (petral: the request context).
Setup ==
    /\ loop_pc = "setup"
    /\ item_index' = 1
    /\ loop_pc' = IF site = "petral" THEN "fetch_page"
                  ELSE IF items = <<>>
                  THEN (IF site = "sahoil" THEN "write_istanbul" ELSE "close")
                  ELSE "attempt"
    /\ UNCHANGED <<site, items, retries, attempt, raised_in, saved, written, attempts,
                   istanbul_rows, all_rows, run_vars, merge_vars, lookup_vars,
                   cli_vars, page_vars>>

\* A call before the loop raises (opet, sahoil: also "select not found").
SetupFails ==
    /\ loop_pc = "setup"
    /\ raise
    /\ UNCHANGED <<site, items, retries, item_index, attempt, saved, written, attempts,
                   istanbul_rows, all_rows, run_vars, merge_vars, lookup_vars,
                   cli_vars, page_vars>>

\* The try block of one attempt runs to its end, had it no break: the inner
\* for loop goes on with the next attempt.
AttemptSucceeds_without_break ==
    \E found \in BOOLEAN :
        /\ site \in RETRY_SITES
        /\ loop_pc = "attempt"
        /\ site # "turkiyepetrolleri" => found
        /\ attempts' = attempted(TRUE)
        /\ written' = IF found THEN Append(written, items[item_index]) ELSE written
        /\ saved' = IF found /\ site # "petrolofisi"
                    THEN Append(saved, items[item_index]) ELSE saved
        /\ attempt' = IF attempt < retries THEN attempt + 1 ELSE attempt
        /\ loop_pc' = IF attempt < retries THEN "attempt" ELSE "delay"
        /\ UNCHANGED <<site, items, retries, item_index, raised_in,
                       istanbul_rows, all_rows, run_vars, merge_vars, lookup_vars,
                       cli_vars, page_vars>>

\* petrolofisi, shell, turkiyepetrolleri: the try block of one attempt runs to
\* its break.  The file is written (turkiyepetrolleri: if prices were found)
\* and its path appended to saved (petrolofisi keeps no list).
AttemptSucceeds ==
    \E found \in BOOLEAN :
        /\ site \in RETRY_SITES
        /\ loop_pc = "attempt"
        /\ site # "turkiyepetrolleri" => found
        /\ attempts' = attempted(TRUE)
        /\ written' = IF found THEN Append(written, items[item_index]) ELSE written
        /\ saved' = IF found /\ site # "petrolofisi"
                    THEN Append(saved, items[item_index]) ELSE saved
        /\ loop_pc' = "delay"
        /\ UNCHANGED <<site, items, retries, item_index, attempt, raised_in,
                       istanbul_rows, all_rows, run_vars, merge_vars, lookup_vars,
                       cli_vars, page_vars>>

\* The try block raises before the file is written: "except PWTimeoutError"
\* or "except Exception"; with attempts left the handler backs off, without
\* it prints that the city is skipped.
AttemptFails ==
    /\ site \in RETRY_SITES
    /\ loop_pc = "attempt"
    /\ attempts' = attempted(FALSE)
    /\ loop_pc' = IF attempt < retries THEN "backoff" ELSE "delay"
    /\ UNCHANGED <<site, items, retries, item_index, attempt, raised_in, saved,
                   written, istanbul_rows, all_rows, run_vars, merge_vars, lookup_vars,
                   cli_vars, page_vars>>

\* page.wait_for_timeout(backoff); continue
Backoff ==
    /\ loop_pc = "backoff"
    /\ attempt' = attempt + 1
    /\ loop_pc' = "attempt"
    /\ UNCHANGED <<site, items, retries, item_index, raised_in, saved, written,
                   attempts, istanbul_rows, all_rows, run_vars, merge_vars, lookup_vars,
                   cli_vars, page_vars>>

\* The wait inside the handler raises.
BackoffFails ==
    /\ loop_pc = "backoff"
    /\ raise
    /\ UNCHANGED <<site, items, retries, item_index, attempt, saved, written, attempts,
                   istanbul_rows, all_rows, run_vars, merge_vars, lookup_vars,
                   cli_vars, page_vars>>

\* opet: the try block of one city runs to saved.append(fp).
OpetCity ==
    /\ site = "opet"
    /\ loop_pc = "attempt"
    /\ attempts' = attempted(TRUE)
    /\ written' = Append(written, strip(items[item_index]))
    /\ saved' = Append(saved, strip(items[item_index]))
    /\ loop_pc' = "delay"
    /\ UNCHANGED <<site, items, retries, item_index, attempt, raised_in,
                   istanbul_rows, all_rows, run_vars, merge_vars, lookup_vars,
                   cli_vars, page_vars>>

\* opet: the try block raises: "except Exception" passes the city over.
OpetCityFails ==
    /\ site = "opet"
    /\ loop_pc = "attempt"
    /\ attempts' = attempted(FALSE)
    /\ loop_pc' = "delay"
    /\ UNCHANGED <<site, items, retries, item_index, attempt, raised_in, saved,
                   written, istanbul_rows, all_rows, run_vars, merge_vars, lookup_vars,
                   cli_vars, page_vars>>

\* sahoil: the try block of one city: the districts of an Istanbul variant
\* are kept for later, those of another city written.
SahoilCity ==
    \E rows_found \in BOOLEAN :
        /\ site = "sahoil"
        /\ loop_pc = "attempt"
        /\ attempts' = attempted(TRUE)
        /\ IF sahoil_is_istanbul_variant(strip(items[item_index]))
           THEN /\ istanbul_rows' = IF rows_found
                                    THEN Append(istanbul_rows, items[item_index])
                                    ELSE istanbul_rows
                /\ UNCHANGED <<written, saved, cli_vars, page_vars>>
           ELSE /\ written' = Append(written, strip(items[item_index]))
                /\ saved' = Append(saved, strip(items[item_index]))
                /\ UNCHANGED istanbul_rows
        /\ loop_pc' = "delay"
        /\ UNCHANGED <<site, items, retries, item_index, attempt, raised_in, all_rows,
                       run_vars, merge_vars, lookup_vars, cli_vars, page_vars>>

\* sahoil: the try block raises: "except Exception" prints and passes on.
SahoilCityFails ==
    /\ site = "sahoil"
    /\ loop_pc = "attempt"
    /\ attempts' = attempted(FALSE)
    /\ loop_pc' = "delay"
    /\ UNCHANGED <<site, items, retries, item_index, attempt, raised_in, saved,
                   written, istanbul_rows, all_rows, run_vars, merge_vars, lookup_vars,
                   cli_vars, page_vars>>

\* The wait between two cities, then the next city.
Delay ==
    /\ loop_pc = "delay"
    /\ item_index' = item_index + 1
    /\ attempt' = 0
    /\ loop_pc' = IF item_index' <= Len(items) THEN "attempt"
                  ELSE IF site = "sahoil" THEN "write_istanbul" ELSE "close"
    /\ UNCHANGED <<site, items, retries, raised_in, saved, written, attempts,
                   istanbul_rows, all_rows, run_vars, merge_vars, lookup_vars,
                   cli_vars, page_vars>>

\* The wait between two cities raises.
DelayFails ==
    /\ loop_pc = "delay"
    /\ raise
    /\ UNCHANGED <<site, items, retries, item_index, attempt, saved, written, attempts,
                   istanbul_rows, all_rows, run_vars, merge_vars, lookup_vars,
                   cli_vars, page_vars>>

\* sahoil: if istanbul_rows: write the merged file and append its path.
SahoilWriteIstanbul ==
    /\ loop_pc = "write_istanbul"
    /\ written' = IF istanbul_rows # <<>>
                  THEN Append(written, <<73, 83, 84, 65, 78, 66, 85, 76>>) ELSE written
    /\ saved' = IF istanbul_rows # <<>>
                THEN Append(saved, <<73, 83, 84, 65, 78, 66, 85, 76>>) ELSE saved
    /\ loop_pc' = "close"
    /\ UNCHANGED <<site, items, retries, item_index, attempt, raised_in, attempts,
                   istanbul_rows, all_rows, run_vars, merge_vars, lookup_vars,
                   cli_vars, page_vars>>

\* petral: rows, pagination = _fetch_page(request_ctx, pg); all_rows.extend(rows)
PetralFetchPage ==
    /\ loop_pc = "fetch_page"
    /\ attempts' = attempted(TRUE)
    /\ all_rows' = all_rows \o items[item_index]
    /\ item_index' = item_index + 1
    /\ loop_pc' = IF item_index' <= Len(items) THEN "fetch_page" ELSE "write_files"
    /\ UNCHANGED <<site, items, retries, attempt, raised_in, saved, written,
                   istanbul_rows, run_vars, merge_vars, lookup_vars, cli_vars,
                   page_vars>>

\* petral: _fetch_page raises (the response is not ok): no try encloses the call.
PetralFetchPageFails ==
    /\ loop_pc = "fetch_page"
    /\ attempts' = attempted(FALSE)
    /\ raise
    /\ UNCHANGED <<site, items, retries, item_index, attempt, saved, written,
                   istanbul_rows, all_rows, run_vars, merge_vars, lookup_vars,
                   cli_vars, page_vars>>

\* petral: the rows grouped by city, one file written per city.
PetralWriteFiles ==
    /\ loop_pc = "write_files"
    /\ written' = city_map_keys(<<>>, all_rows)
    /\ saved' = city_map_keys(<<>>, all_rows)
    /\ loop_pc' = "returned"
    /\ UNCHANGED <<site, items, retries, item_index, attempt, raised_in, attempts,
                   istanbul_rows, all_rows, run_vars, merge_vars, lookup_vars,
                   cli_vars, page_vars>>

\* browser.close(); return saved
Close ==
    /\ loop_pc = "close"
    /\ loop_pc' = "returned"
    /\ UNCHANGED <<site, items, retries, item_index, attempt, raised_in, saved,
                   written, attempts, istanbul_rows, all_rows, run_vars, merge_vars,
                   lookup_vars, cli_vars, page_vars>>

LoopNext ==
    \/ Setup
    \/ SetupFails
    \/ AttemptSucceeds
    \/ AttemptFails
    \/ Backoff
    \/ BackoffFails
    \/ OpetCity
    \/ OpetCityFails
    \/ SahoilCity
    \/ SahoilCityFails
    \/ Delay
    \/ DelayFails
    \/ SahoilWriteIstanbul
    \/ PetralFetchPage
    \/ PetralFetchPageFails
    \/ PetralWriteFiles
    \/ Close

\* Only a fetch-all loop runs.
LoopOnlyInit ==
    LoopInit /\ LookupIdle /\ MergeIdle /\ RunIdle /\ CliIdle /\ ExtractIdle /\ DictIdle

LoopSpec == LoopOnlyInit /\ [][LoopNext]_vars

\* ------------------------------------------------------------------------
\* test.py: the module-level imports, the run_ functions, and the calls they
\* make through the global names of the module.

\* What a name is bound to: the attribute attr of module, a module of the
\* package site ("module": the module itself).
NoneObject == [site |-> "none", module |-> "none", attr |-> "None"]

\* The import statements of test.py, in order; names holds, for each name a
\* statement binds, the attribute imported and the global name it is bound to.
IMPORTS == <<
    [line |-> 1, site |-> "pathlib", module |-> "pathlib",
     names |-> <<<<"Path", "Path">>>>],
    [line |-> 2, site |-> "argparse", module |-> "argparse",
     names |-> <<<<"module", "argparse">>>>],
    [line |-> 3, site |-> "common", module |-> "common.plates",
     names |-> <<<<"get_plate_codes", "get_plate_codes">>>>],
    [line |-> 4, site |-> "petrolofisi", module |-> "petrolofisi.scraper",
     names |-> <<<<"fetch_all_cities_prices", "fetch_all_cities_prices">>>>],
    [line |-> 5, site |-> "petrolofisi", module |-> "petrolofisi",
     names |-> <<<<"module", "petrolofisi">>>>],
    [line |-> 6, site |-> "shell", module |-> "shell",
     names |-> <<<<"save_city_prices_txt", "save_city_prices_txt">>,
                 <<"save_all_cities_prices_txt", "save_all_cities_prices_txt">>>>],
    [line |-> 7, site |-> "shell", module |-> "shell",
     names |-> <<<<"module", "shell">>>>],
    [line |-> 8, site |-> "opet", module |-> "opet",
     names |-> <<<<"save_city_prices_txt", "opet_save_city_prices_txt">>,
                 <<"save_all_cities_prices_txt", "opet_save_all_cities_prices_txt">>>>],
    [line |-> 9, site |-> "opet", module |-> "opet",
     names |-> <<<<"module", "opet">>>>],
    [line |-> 10, site |-> "turkiyepetrolleri", module |-> "turkiyepetrolleri.scraper",
     names |-> <<<<"fetch_all_cities_prices", "tppd_fetch_all_cities_prices">>>>],
    [line |-> 11, site |-> "turkiyepetrolleri", module |-> "turkiyepetrolleri",
     names |-> <<<<"save_city_prices_txt", "tppd_save_city_prices_txt">>,
                 <<"save_all_cities_prices_txt", "tppd_save_all_cities_prices_txt">>>>],
    [line |-> 12, site |-> "turkiyepetrolleri", module |-> "turkiyepetrolleri",
     names |-> <<<<"module", "turkiyepetrolleri">>>>],
    [line |-> 13, site |-> "aytemiz", module |-> "aytemiz.scraper",
     names |-> <<<<"save_all_cities_prices_txt", "save_all_cities_prices_txt">>>>],
    [line |-> 14, site |-> "aytemiz", module |-> "aytemiz",
     names |-> <<<<"module", "aytemiz">>>>],
    [line |-> 15, site |-> "moil", module |-> "moil.scraper",
     names |-> <<<<"save_all_cities_prices_txt", "moil_save_all_cities_prices_txt">>>>],
    [line |-> 16, site |-> "moil", module |-> "moil",
     names |-> <<<<"module", "moil">>>>],
    [line |-> 17, site |-> "parkoil", module |-> "parkoil",
     names |-> <<<<"save_city_prices_txt", "parkoil_save_city_prices_txt">>,
                 <<"save_all_cities_prices_txt", "parkoil_save_all_cities_prices_txt">>>>],
    [line |-> 18, site |-> "parkoil", module |-> "parkoil",
     names |-> <<<<"module", "parkoil">>>>],
    [line |-> 19, site |-> "rpet", module |-> "rpet",
     names |-> <<<<"save_city_prices_txt", "rpet_save_city_prices_txt">>,
                 <<"save_all_cities_prices_txt", "rpet_save_all_cities_prices_txt">>>>],
    [line |-> 20, site |-> "rpet", module |-> "rpet",
     names |-> <<<<"module", "rpet">>>>],
    [line |-> 21, site |-> "hpyco", module |-> "hpyco",
     names |-> <<<<"save_city_prices_txt", "hpyco_save_city_prices_txt">>,
                 <<"save_all_cities_prices_txt", "hpyco_save_all_cities_prices_txt">>>>],
    [line |-> 22, site |-> "hpyco", module |-> "hpyco",
     names |-> <<<<"module", "hpyco">>>>],
    [line |-> 24, site |-> "total", module |-> "total.scraper",
     names |-> <<<<"save_all_cities_prices_txt", "total_save_all_cities_prices_txt">>>>],
    [line |-> 25, site |-> "total", module |-> "total",
     names |-> <<<<"module", "total">>>>],
    [line |-> 29, site |-> "kadoil", module |-> "kadoil.scraper",
     names |-> <<<<"save_all_cities_prices_txt", "kadoil_save_all_cities_prices_txt">>>>],
    [line |-> 30, site |-> "kadoil", module |-> "kadoil",
     names |-> <<<<"module", "kadoil">>>>],
    [line |-> 31, site |-> "lukoil", module |-> "lukoil.scraper",
     names |-> <<<<"save_all_cities_prices_txt", "lukoil_save_all_cities_prices_txt">>>>],
    [line |-> 32, site |-> "lukoil", module |-> "lukoil",
     names |-> <<<<"module", "lukoil">>>>],
    [line |-> 33, site |-> "milangaz", module |-> "milangaz.scraper",
     names |-> <<<<"save_all_cities_prices_txt", "milangaz_save_all_cities_prices_txt">>>>],
    [line |-> 34, site |-> "milangaz", module |-> "milangaz",
     names |-> <<<<"module", "milangaz">>>>],
    [line |-> 35, site |-> "ipragaz", module |-> "ipragaz.scraper",
     names |-> <<<<"save_all_cities_prices_txt", "ipragaz_save_all_cities_prices_txt">>>>],
    [line |-> 36, site |-> "ipragaz", module |-> "ipragaz",
     names |-> <<<<"module", "ipragaz">>>>],
    [line |-> 37, site |-> "sunpet", module |-> "sunpet.scraper",
     names |-> <<<<"save_all_cities_prices_txt", "sunpet_save_all_cities_prices_txt">>>>],
    [line |-> 38, site |-> "sunpet", module |-> "sunpet",
     names |-> <<<<"module", "sunpet">>>>],
    [line |-> 39, site |-> "petral", module |-> "petral",
     names |-> <<<<"save_city_prices_txt", "petral_save_city_prices_txt">>,
                 <<"save_all_cities_prices_txt", "petral_save_all_cities_prices_txt">>>>],
    [line |-> 40, site |-> "petral", module |-> "petral",
     names |-> <<<<"module", "petral">>>>],
    [line |-> 41, site |-> "qplus", module |-> "qplus",
     names |-> <<<<"save_city_prices_txt", "qplus_save_city_prices_txt">>,
                 <<"save_all_cities_prices_txt", "qplus_save_all_cities_prices_txt">>>>],
    [line |-> 42, site |-> "qplus", module |-> "qplus",
     names |-> <<<<"module", "qplus">>>>],
    [line |-> 43, site |-> "sahoil", module |-> "sahoil",
     names |-> <<<<"save_city_prices_txt", "sahoil_save_city_prices_txt">>,
                 <<"save_all_cities_prices_txt", "sahoil_save_all_cities_prices_txt">>>>],
    [line |-> 44, site |-> "sahoil", module |-> "sahoil",
     names |-> <<<<"module", "sahoil">>>>]
>>

\* The statements inside the try block of lines 23-28.
TOTAL_TRY_LINES == {24, 25}

\* Position of the first statement after that try block.
after_total_try ==
    1 + CHOOSE i \in 1..Len(IMPORTS) :
            /\ IMPORTS[i].line \in TOTAL_TRY_LINES
            /\ \A j \in 1..Len(IMPORTS) :
                  IMPORTS[j].line \in TOTAL_TRY_LINES => j <= i

\* The assignment name = object in a namespace.
bind(namespace, name, object) ==
    [n \in DOMAIN namespace \cup {name} |->
        IF n = name THEN object ELSE namespace[n]]

\* An import statement binds its names from left to right, from the k-th on.
RECURSIVE bind_names(_, _, _)
bind_names(namespace, statement, k) ==
    IF k > Len(statement.names) THEN namespace
    ELSE bind_names(bind(namespace, statement.names[k][2],
                         [site |-> statement.site, module |-> statement.module,
                          attr |-> statement.names[k][1]]),
                    statement, k + 1)

\* The functions test.py defines.
ENTRY_NAMES ==
    {"run_opet", "run_petrolofisi", "run_shell", "run_parkoil", "run_rpet",
     "run_hpyco", "run_turkiyepetrolleri", "run_aytemiz", "run_moil", "run_total",
     "run_kadoil", "run_lukoil", "run_aygaz", "run_milangaz", "run_petral",
     "run_qplus", "run_sahoil", "run_7kita", "run_ipragaz", "run_sunpet"}

\* The run_ functions that differ only in the names they use: the global
\* holding the package, the calls made before the dispatch, the name called
\* for --all (or always, where there is no --city), the name called
\* otherwise, and whether --city has a default.
ENTRY_POINTS == {
    [name |-> "run_opet", pkg |-> "opet", first |-> <<>>,
     all |-> "opet_save_all_cities_prices_txt",
     city |-> "opet_save_city_prices_txt", default |-> TRUE],
    [name |-> "run_petrolofisi", pkg |-> "petrolofisi",
     first |-> <<"get_plate_codes">>,
     all |-> "fetch_all_cities_prices", city |-> "none", default |-> FALSE],
    [name |-> "run_parkoil", pkg |-> "parkoil", first |-> <<>>,
     all |-> "parkoil_save_all_cities_prices_txt",
     city |-> "parkoil_save_city_prices_txt", default |-> TRUE],
    [name |-> "run_rpet", pkg |-> "rpet", first |-> <<>>,
     all |-> "rpet_save_all_cities_prices_txt",
     city |-> "rpet_save_city_prices_txt", default |-> TRUE],
    [name |-> "run_hpyco", pkg |-> "hpyco", first |-> <<>>,
     all |-> "hpyco_save_all_cities_prices_txt",
     city |-> "hpyco_save_city_prices_txt", default |-> TRUE],
    [name |-> "run_turkiyepetrolleri", pkg |-> "turkiyepetrolleri",
     first |-> <<>>,
     all |-> "tppd_fetch_all_cities_prices", city |-> "none", default |-> FALSE],
    [name |-> "run_moil", pkg |-> "moil", first |-> <<>>,
     all |-> "moil_save_all_cities_prices_txt", city |-> "none",
     default |-> FALSE],
    [name |-> "run_kadoil", pkg |-> "kadoil", first |-> <<>>,
     all |-> "kadoil_save_all_cities_prices_txt", city |-> "none",
     default |-> FALSE],
    [name |-> "run_lukoil", pkg |-> "lukoil", first |-> <<>>,
     all |-> "lukoil_save_all_cities_prices_txt", city |-> "none",
     default |-> FALSE],
    [name |-> "run_milangaz", pkg |-> "milangaz", first |-> <<>>,
     all |-> "milangaz_save_all_cities_prices_txt", city |-> "none",
     default |-> FALSE],
    [name |-> "run_petral", pkg |-> "petral", first |-> <<>>,
     all |-> "petral_save_all_cities_prices_txt",
     city |-> "petral_save_city_prices_txt", default |-> FALSE],
    [name |-> "run_qplus", pkg |-> "qplus", first |-> <<>>,
     all |-> "qplus_save_all_cities_prices_txt",
     city |-> "qplus_save_city_prices_txt", default |-> FALSE],
    [name |-> "run_sahoil", pkg |-> "sahoil", first |-> <<>>,
     all |-> "sahoil_save_all_cities_prices_txt",
     city |-> "sahoil_save_city_prices_txt", default |-> TRUE],
    [name |-> "run_ipragaz", pkg |-> "ipragaz", first |-> <<>>,
     all |-> "ipragaz_save_all_cities_prices_txt", city |-> "none",
     default |-> FALSE],
    [name |-> "run_sunpet", pkg |-> "sunpet", first |-> <<>>,
     all |-> "sunpet_save_all_cities_prices_txt", city |-> "none",
     default |-> FALSE]}

\* The command lines a parser with the group of --city and --all accepts,
\* and those a parser with --debug alone accepts.
GROUP_ARGS ==
    {a \in [all : BOOLEAN, city : BOOLEAN, debug : BOOLEAN] : ~(a.all /\ a.city)}

DEBUG_ARGS == {a \in GROUP_ARGS : ~a.all /\ ~a.city}

\* The names aytemiz/scraper.py binds at module level: its imports, its
\* constant, its classes and its functions.
AYTEMIZ_SCRAPER_NAMES ==
    {"Path", "List", "Dict", "Optional", "dataclass", "sync_playwright",
     "PWTimeoutError", "Page", "random", "re", "get_istanbul_district_region",
     "ISTANBUL_DISTRICT_REGIONS", "AYTEMIZ_URL", "AytemizBenzinPriceRow",
     "AytemizLPGPriceRow", "_ensure_cookie_accepted",
     "_extract_benzin_prices_from_page", "_extract_lpg_prices_from_page",
     "_click_lpg_button", "_get_city_options", "_select_city_and_wait_for_load",
     "_fetch_all_lpg_prices_dict", "_merge_lpg_for_single_city",
     "_normalize_location_name", "_write_aytemiz_prices_to_text",
     "_normalize_city_name_for_filename", "save_all_cities_prices_txt",
     "fetch_all_cities_with_lpg", "_merge_lpg_into_benzin"}

AYTEMIZ_SCRAPER_GLOBALS ==
    [n \in AYTEMIZ_SCRAPER_NAMES |->
        [site |-> "aytemiz", module |-> "aytemiz.scraper", attr |-> n]]

\* __all__ of the aytemiz package.
AYTEMIZ_ALL ==
    {"fetch_all_cities_with_lpg", "save_all_cities_prices_txt",
     "_fetch_all_lpg_prices_dict", "_merge_lpg_into_benzin",
     "AytemizBenzinPriceRow", "AytemizLPGPriceRow"}

\* The globals a function of module resolves its names in.
module_globals(module) ==
    IF module = "test" THEN test_globals ELSE AYTEMIZ_SCRAPER_GLOBALS

\* The names fetch_all_cities_with_lpg calls, in order.
FETCH_ALL_WITH_LPG_BODY ==
    <<"_fetch_all_benzin_prices_dict", "_fetch_all_lpg_prices_dict",
      "_merge_lpg_into_benzin">>

CliInit ==
    /\ cli_pc = "imports"
    /\ import_pc = 1
    /\ test_globals = no_names
    /\ entry = "none"
    /\ frame_module = "none"
    /\ frame_locals = no_names
    /\ body = <<>>
    /\ call_pc = 0
    /\ output_dir = "none"
    /\ args = no_args
    /\ calls = <<>>
    /\ cli_error = "none"

\* An import statement of test.py.
Import ==
    /\ cli_pc = "imports"
    /\ test_globals' = bind_names(test_globals, IMPORTS[import_pc], 1)
    /\ import_pc' = import_pc + 1
    /\ cli_pc' = IF import_pc = Len(IMPORTS) THEN "defs" ELSE "imports"
    /\ UNCHANGED <<entry, frame_module, frame_locals, body, call_pc, output_dir,
                   args, calls, cli_error, lookup_vars, merge_vars, scraper_vars,
                   page_vars>>

\* An import of the try block fails: except Exception binds both names of
\* the block to None.
ImportTotalFails ==
    /\ cli_pc = "imports"
    /\ IMPORTS[import_pc].line \in TOTAL_TRY_LINES
    /\ test_globals' = bind(bind(test_globals, "total_save_all_cities_prices_txt",
                                 NoneObject),
                            "total", NoneObject)
    /\ import_pc' = after_total_try
    /\ UNCHANGED <<cli_pc, entry, frame_module, frame_locals, body, call_pc,
                   output_dir, args, calls, cli_error, lookup_vars, merge_vars,
                   scraper_vars, page_vars>>

\* Any other import fails: the module is not loaded.
ImportFails ==
    /\ cli_pc = "imports"
    /\ IMPORTS[import_pc].line \notin TOTAL_TRY_LINES
    /\ cli_pc' = "raised"
    /\ cli_error' = "ImportError"
    /\ UNCHANGED <<import_pc, test_globals, entry, frame_module, frame_locals,
                   body, call_pc, output_dir, args, calls, lookup_vars, merge_vars,
                   scraper_vars, page_vars>>

\* The def statements of test.py.
RECURSIVE bind_defs(_, _)
bind_defs(namespace, names) ==
    IF names = {} THEN namespace
    ELSE LET name == CHOOSE n \in names : TRUE
         IN  bind_defs(bind(namespace, name,
                            [site |-> "test", module |-> "test", attr |-> name]),
                       names \ {name})

DefineEntryPoints ==
    /\ cli_pc = "defs"
    /\ test_globals' = bind_defs(test_globals, ENTRY_NAMES)
    /\ cli_pc' = "ready"
    /\ UNCHANGED <<import_pc, entry, frame_module, frame_locals, body, call_pc,
                   output_dir, args, calls, cli_error, lookup_vars, merge_vars,
                   scraper_vars, page_vars>>

\* A function is entered: its module, its locals, the names it goes on to
\* call, the directory it passes on, its command line.
enter(name, module, locals, names, dir, a) ==
    /\ entry' = name
    /\ frame_module' = module
    /\ frame_locals' = locals
    /\ body' = names
    /\ call_pc' = 1
    /\ output_dir' = dir
    /\ args' = a
    /\ cli_pc' = "running"
    /\ UNCHANGED <<import_pc, test_globals, calls, cli_error, lookup_vars,
                   merge_vars, scraper_vars, page_vars>>

\* A function is left by an exception before it calls anything.
leave(name, a, error) ==
    /\ entry' = name
    /\ args' = a
    /\ cli_pc' = "raised"
    /\ cli_error' = error
    /\ UNCHANGED <<import_pc, test_globals, frame_module, frame_locals, body,
                   call_pc, output_dir, calls, lookup_vars, merge_vars,
                   scraper_vars, page_vars>>

run_shell ==
    /\ cli_pc = "ready"
    /\ \E a \in GROUP_ARGS :
          enter("run_shell", "test", no_names,
                <<IF a.all THEN "save_all_cities_prices_txt"
                  ELSE "save_city_prices_txt">>,
                test_globals["shell"].site, a)

run_aytemiz ==
    /\ cli_pc = "ready"
    /\ \E a \in DEBUG_ARGS :
          enter("run_aytemiz", "test", no_names, <<"save_all_cities_prices_txt">>,
                test_globals["aytemiz"].site, a)

\* run_opet, run_petrolofisi, ...: the functions of ENTRY_POINTS.
run_site ==
    /\ cli_pc = "ready"
    /\ \E e \in ENTRY_POINTS :
       \E a \in (IF e.city = "none" THEN DEBUG_ARGS ELSE GROUP_ARGS) :
          IF e.city # "none" /\ ~e.default /\ ~a.all /\ ~a.city
            THEN leave(e.name, a, "SystemExit")
            ELSE enter(e.name, "test", no_names,
                       e.first \o <<IF a.all \/ e.city = "none" THEN e.all
                                    ELSE e.city>>,
                       test_globals[e.pkg].site, a)

\* run_total: the names of the try block if they are bound to something,
\* else the lazy import to local names.
run_total ==
    /\ cli_pc = "ready"
    /\ \E a \in DEBUG_ARGS :
          IF \/ test_globals["total"] = NoneObject
             \/ test_globals["total_save_all_cities_prices_txt"] = NoneObject
            THEN \E imported \in BOOLEAN :
                    IF imported
                      THEN enter("run_total", "test",
                                 bind(bind(no_names,
                                           "total_save_all_cities_prices_txt_local",
                                           [site |-> "total",
                                            module |-> "total.scraper",
                                            attr |-> "save_all_cities_prices_txt"]),
                                      "total_local",
                                      [site |-> "total", module |-> "total",
                                       attr |-> "module"]),
                                 <<"total_save_all_cities_prices_txt_local">>,
                                 "total", a)
                      ELSE leave("run_total", a, "ImportError")
            ELSE enter("run_total", "test", no_names,
                       <<"total_save_all_cities_prices_txt">>,
                       test_globals["total"].site, a)

\* run_7kita: the scraper is loaded from its file into the local sevenkita.
run_7kita ==
    /\ cli_pc = "ready"
    /\ \E a \in GROUP_ARGS, loaded \in BOOLEAN :
          IF ~loaded \/ (~a.all /\ ~a.city)
            THEN leave("run_7kita", a, "SystemExit")
            ELSE LET attr == IF a.all THEN "save_all_cities_prices_txt"
                             ELSE "save_city_prices_txt"
                 IN  enter("run_7kita", "test",
                           bind(no_names, attr,
                                [site |-> "7kita", module |-> "sevenkita_scraper",
                                 attr |-> attr]),
                           <<attr>>, "7kita", a)

\* run_aygaz calls no scraper.
run_aygaz ==
    /\ cli_pc = "ready"
    /\ enter("run_aygaz", "test", no_names, <<>>, "none", no_args)

\* fetch_all_cities_with_lpg, called through the aytemiz package.
fetch_all_cities_with_lpg ==
    /\ cli_pc = "ready"
    /\ "aytemiz" \in DOMAIN test_globals
    /\ "fetch_all_cities_with_lpg" \in AYTEMIZ_ALL
    /\ \E debug \in BOOLEAN :
          enter("fetch_all_cities_with_lpg", "aytemiz.scraper", no_names,
                FETCH_ALL_WITH_LPG_BODY, "none", [no_args EXCEPT !.debug = debug])

\* The next call of the running function: the name is looked up among the
\* locals, then among the globals of the function's module (no name called
\* here is a builtin); a name found nowhere raises NameError. The function
\* called returns or raises, and a raise leaves the running function.
Call ==
    /\ cli_pc = "running"
    /\ call_pc <= Len(body)
    /\ LET name == body[call_pc]
           scope == IF name \in DOMAIN frame_locals THEN frame_locals
                    ELSE module_globals(frame_module)
       IN  IF name \notin DOMAIN scope
             THEN /\ cli_pc' = "raised"
                  /\ cli_error' = "NameError"
                  /\ UNCHANGED <<call_pc, calls, page_vars>>
             ELSE \E returns \in BOOLEAN :
                    /\ calls' = Append(calls, [fn |-> scope[name],
                                               output_dir |-> output_dir])
                    /\ IF returns
                         THEN /\ call_pc' = call_pc + 1
                              /\ UNCHANGED <<cli_pc, cli_error, page_vars>>
                         ELSE /\ cli_pc' = "raised"
                              /\ cli_error' = "Exception"
                              /\ UNCHANGED call_pc
    /\ UNCHANGED <<import_pc, test_globals, entry, frame_module, frame_locals,
                   body, output_dir, args, lookup_vars, merge_vars, scraper_vars,
                   page_vars>>

\* The running function returns.
Return ==
    /\ cli_pc = "running"
    /\ call_pc = Len(body) + 1
    /\ cli_pc' = "returned"
    /\ UNCHANGED <<import_pc, test_globals, entry, frame_module, frame_locals,
                   body, call_pc, output_dir, args, calls, cli_error, lookup_vars,
                   merge_vars, scraper_vars, page_vars>>

CliNext ==
    \/ Import
    \/ ImportTotalFails
    \/ ImportFails
    \/ DefineEntryPoints
    \/ run_shell
    \/ run_aytemiz
    \/ run_site
    \/ run_total
    \/ run_7kita
    \/ run_aygaz
    \/ fetch_all_cities_with_lpg
    \/ Call
    \/ Return

CliOnlyInit ==
    CliInit /\ LookupIdle /\ MergeIdle /\ RunIdle /\ LoopIdle /\ ExtractIdle /\ DictIdle

CliSpec == CliOnlyInit /\ [][CliNext]_vars

\* ------------------------------------------------------------------------
\* aytemiz/scraper.py: _extract_benzin_prices_from_page

\* The positions of the character c in s.
positions(s, c) == {i \in 1..Len(s) : s[i] = c}

\* s.split(c)[0]: what precedes the first c (s itself when it holds no c)
split_head(s, c) ==
    IF positions(s, c) = {} THEN s
    ELSE SubSeq(s, 1, (CHOOSE i \in positions(s, c) :
                           \A j \in positions(s, c) : i <= j) - 1)

\* s.split(c)[-1]: what follows the last c (s itself when it holds no c)
split_last(s, c) ==
    IF positions(s, c) = {} THEN s
    ELSE SubSeq(s, (CHOOSE i \in positions(s, c) :
                        \A j \in positions(s, c) : i >= j) + 1, Len(s))

\* selected_city_name and city_district_text.lower() !=
\* selected_city_name.lower(), without the case folding.
is_district_of_selected_exact(city_district_text, selected_city_name) ==
    /\ truthy(selected_city_name)
    /\ city_district_text # selected_city_name

\* selected_city_name and city_district_text.lower() !=
\* selected_city_name.lower()
is_district_of_selected(city_district_text, selected_city_name) ==
    /\ truthy(selected_city_name)
    /\ str_lower(city_district_text) # str_lower(selected_city_name)

\* The city and the district read from the text of the first cell, split
\* at "/" (47).
city_and_district(city_district_text, selected_city_name) ==
    IF positions(city_district_text, 47) # {}
    THEN [city |-> strip(split_head(city_district_text, 47)),
          district |-> strip(split_last(city_district_text, 47))]
    ELSE IF is_district_of_selected(city_district_text, selected_city_name)
    THEN [city |-> selected_city_name, district |-> city_district_text]
    ELSE [city |-> city_district_text, district |-> None]

\* The price rows one row of the table gives: one row when it has at least
\* six cells and reading it raises nothing, none otherwise.
extract_row(row, selected_city_name) ==
    IF Len(row.cells) >= 6 /\ ~row.raises
    THEN LET cd == city_and_district(strip(row.cells[1]), selected_city_name)
         IN  << [city |-> cd.city, district |-> cd.district,
                 benzin_95 |-> strip(row.cells[2]),
                 motorin |-> strip(row.cells[3]),
                 motorin_optimum |-> strip(row.cells[4]),
                 kalorifer_yakiti |-> strip(row.cells[5]),
                 fuel_oil |-> strip(row.cells[6]),
                 lpg |-> None] >>
    ELSE <<>>

RECURSIVE _extract_benzin_prices_from_page(_, _)
_extract_benzin_prices_from_page(rows, selected_city_name) ==
    IF rows = <<>> THEN <<>>
    ELSE extract_row(Head(rows), selected_city_name)
         \o _extract_benzin_prices_from_page(Tail(rows), selected_city_name)

\* The cells of a table row: the text of the first cell, five price cells
\* and one more, cut to count cells.
page_cells(text, n, count) ==
    SubSeq(<< text,
              <<32>> \o benzin_row(None, None, n, None).benzin_95 \o <<10>>,
              benzin_row(None, None, n, None).motorin,
              benzin_row(None, None, n, None).motorin_optimum,
              benzin_row(None, None, n, None).kalorifer_yakiti,
              benzin_row(None, None, n, None).fuel_oil,
              <<>> >>, 1, count)

Kadikoy == <<75, 97, 100, 305, 107, 246, 121>>

\* Texts of the first cell: "city / district", two slashes, the city alone
\* (padded, in capitals), a district alone, a city with a slash and nothing
\* after it, nothing at all.
FIRST_CELLS == {
    Istanbul \o <<32, 47, 32>> \o Kadikoy,
    Istanbul \o <<47>> \o Avrupa \o <<32, 47, 32>> \o Kadikoy \o <<32>>,
    <<32>> \o Ankara \o <<10>>,
    str_upper(Ankara),
    Kadikoy,
    Ankara \o <<32, 47>>,
    <<>> }

PAGE_ROWS ==
    {[cells |-> page_cells(t, 1, 6), raises |-> FALSE] : t \in FIRST_CELLS}
    \cup {[cells |-> page_cells(Kadikoy, 2, n), raises |-> FALSE] : n \in {0, 5, 7}}
    \cup {[cells |-> page_cells(Kadikoy, 3, 6), raises |-> TRUE]}

\* The selected city name the caller passes: none, an empty one, a city.
SELECTED_NAMES == {None, <<>>, Ankara, Istanbul}

ExtractInit ==
    /\ extract_pc = "page"
    /\ page_rows = <<>>
    /\ city_name \in SELECTED_NAMES
    /\ benzin_prices = <<>>
    /\ lpg_data = <<>>
    /\ merged_prices = <<>>
    /\ file_text = None
    /\ merge_pc = "idle"

\* The page shows one more row in the table.
AddPageRow ==
    /\ extract_pc = "page"
    /\ Len(page_rows) < MaxRows
    /\ \E r \in PAGE_ROWS : page_rows' = Append(page_rows, r)
    /\ UNCHANGED <<extract_pc, dict_vars, lookup_vars, merge_vars, scraper_vars, cli_vars>>

\* The call: the table is read row by row.
ExtractBenzinPrices ==
    /\ extract_pc = "page"
    /\ benzin_prices' = _extract_benzin_prices_from_page(page_rows, city_name)
    /\ extract_pc' = "returned"
    /\ UNCHANGED <<page_rows, dict_vars, lookup_vars, scraper_vars, cli_vars,
                   lpg_data, city_name, merged_prices, file_text, merge_pc>>

\* The call when the table never shows or counting its rows raises: the
\* empty list is returned.
ExtractTimesOut ==
    /\ extract_pc = "page"
    /\ benzin_prices' = <<>>
    /\ extract_pc' = "timeout"
    /\ UNCHANGED <<page_rows, dict_vars, lookup_vars, scraper_vars, cli_vars,
                   lpg_data, city_name, merged_prices, file_text, merge_pc>>

ExtractNext ==
    \/ AddPageRow
    \/ ExtractBenzinPrices
    \/ ExtractTimesOut

ExtractOnlyInit ==
    ExtractInit /\ LookupIdle /\ RunIdle /\ LoopIdle /\ CliIdle /\ DictIdle

ExtractSpec == ExtractOnlyInit /\ [][ExtractNext]_vars

\* ------------------------------------------------------------------------
\* aytemiz/scraper.py: _merge_lpg_into_benzin
\*
\* A dict is the sequence of its entries [key, rows] in insertion order.
\* benzin_data.copy() is shallow: the returned dict has the lists, and the
\* row objects, of benzin_data, so what the loop assigns to row.lpg shows in
\* both.  Below, merged stands for merged_data and lpg for lpg_data.

\* key.split('/')[-1].strip() if '/' in key else None
last_part(key) ==
    IF positions(key, 47) # {} THEN strip(split_last(key, 47)) ELSE None

\* for row in benzin_price_list: row.lpg = lpg_price
set_lpg(benzin_price_list, lpg_price) ==
    [i \in 1..Len(benzin_price_list) |->
        [benzin_price_list[i] EXCEPT !.lpg = lpg_price]]

\* The loop over the benzin entries, had the entry without a district been
\* given the price of whichever region comes.
merge_istanbul_region_any_fallback(merged, istanbul_region, lpg_price_for_region) ==
    [k \in 1..Len(merged) |->
        IF contains(merged[k].key, Istanbul)
        THEN IF truthy(last_part(merged[k].key))
             THEN IF get_istanbul_district_region(last_part(merged[k].key))
                        = istanbul_region
                  THEN [merged[k] EXCEPT
                           !.rows = set_lpg(@, lpg_price_for_region)]
                  ELSE merged[k]
             ELSE [merged[k] EXCEPT !.rows = set_lpg(@, lpg_price_for_region)]
        ELSE merged[k]]

\* for benzin_key, benzin_price_list in merged_data.items(): ... for one
\* Istanbul LPG key of the region istanbul_region.
merge_istanbul_region(merged, istanbul_region, lpg_price_for_region) ==
    [k \in 1..Len(merged) |->
        IF contains(merged[k].key, Istanbul)
        THEN IF truthy(last_part(merged[k].key))
             THEN IF get_istanbul_district_region(last_part(merged[k].key))
                        = istanbul_region
                  THEN [merged[k] EXCEPT
                           !.rows = set_lpg(@, lpg_price_for_region)]
                  ELSE merged[k]
             ELSE IF istanbul_region = Avrupa
             THEN [merged[k] EXCEPT !.rows = set_lpg(@, lpg_price_for_region)]
             ELSE merged[k]
        ELSE merged[k]]

\* The else branch, had the first LPG price been assigned even when empty.
merge_direct_match_assigning_empty(merged, lpg_key_, lpg_rows) ==
    [k \in 1..Len(merged) |->
        IF merged[k].key = lpg_key_ /\ lpg_rows # <<>>
        THEN [merged[k] EXCEPT !.rows = set_lpg(@, first_lpg(lpg_rows))]
        ELSE merged[k]]

\* The else branch: the direct match of a key that is not of Istanbul.
merge_direct_match(merged, lpg_key_, lpg_rows) ==
    [k \in 1..Len(merged) |->
        IF merged[k].key = lpg_key_ /\ truthy(first_lpg(lpg_rows))
        THEN [merged[k] EXCEPT !.rows = set_lpg(@, first_lpg(lpg_rows))]
        ELSE merged[k]]

\* The body of "for lpg_key, lpg_rows in lpg_data.items()".
merge_lpg_entry(merged, lpg_key_, lpg_rows) ==
    IF contains(lpg_key_, Istanbul)
    THEN IF ~truthy(last_part(lpg_key_)) THEN merged            \* continue
         ELSE IF ~truthy(first_lpg(lpg_rows)) THEN merged       \* continue
         ELSE merge_istanbul_region(merged, last_part(lpg_key_),
                                    first_lpg(lpg_rows))
    ELSE merge_direct_match(merged, lpg_key_, lpg_rows)

RECURSIVE merge_lpg_entries(_, _, _)
merge_lpg_entries(merged, lpg, i) ==
    IF i > Len(lpg) THEN merged
    ELSE merge_lpg_entries(
             merge_lpg_entry(merged, lpg[i].key, lpg[i].rows),
             lpg, i + 1)

_merge_lpg_into_benzin(benzin, lpg) == merge_lpg_entries(benzin, lpg, 1)

Besiktas == <<66, 101, 351, 105, 107, 116, 97, 351>>
Merkez == <<77, 101, 114, 107, 101, 122>>
Yakasi == <<89, 97, 107, 97, 115, 305>>

KEY_AVRUPA_tight == Istanbul \o <<47>> \o Avrupa
KEY_AVRUPA_YAKASI == KEY_AVRUPA \o <<32>> \o Yakasi
KEY_AVRUPA_plain == Istanbul_ascii \o <<32, 47, 32>> \o Avrupa

\* Entries of the LPG dict: the two regions, a region without rows or with
\* an empty price, the region written without blanks, with a plain I, with
\* "Yakasi" after it, Istanbul without a region, another city with a price
\* and with an empty one.
DICT_LPG_ENTRIES == {
    [key |-> KEY_AVRUPA, rows |-> <<lpg_row(Istanbul, Avrupa, <<49, 55, 46, 57, 48>>)>>],
    [key |-> KEY_AVRUPA, rows |-> <<>>],
    [key |-> KEY_ANADOLU,
     rows |-> <<lpg_row(Istanbul, Anadolu, <<49, 56, 46, 53, 48>>),
                lpg_row(Istanbul, Anadolu, <<49, 56, 46, 54, 48>>)>>],
    [key |-> KEY_ANADOLU, rows |-> <<lpg_row(Istanbul, Anadolu, <<>>)>>],
    [key |-> KEY_AVRUPA_tight,
     rows |-> <<lpg_row(Istanbul, Avrupa, <<49, 55, 46, 56, 48>>)>>],
    [key |-> KEY_AVRUPA_plain,
     rows |-> <<lpg_row(Istanbul_ascii, Avrupa, <<49, 55, 46, 57, 53>>)>>],
    [key |-> KEY_AVRUPA_YAKASI,
     rows |-> <<lpg_row(Istanbul, Avrupa \o <<32>> \o Yakasi, <<49, 55, 46, 56, 53>>)>>],
    [key |-> Istanbul, rows |-> <<lpg_row(Istanbul, None, <<49, 55, 46, 48, 48>>)>>],
    [key |-> Ankara,
     rows |-> <<lpg_row(Ankara, None, <<49, 54, 46, 48, 48>>),
                lpg_row(Ankara, None, <<49, 54, 46, 49, 48>>)>>],
    [key |-> Ankara, rows |-> <<lpg_row(Ankara, None, <<>>)>>] }

\* Entries of the benzin dict: districts of either side, Istanbul without a
\* district, a row labelled with a region, a district the table does not
\* hold, another city.
BENZIN_ENTRIES == {
    [key |-> Istanbul \o <<32, 47, 32>> \o Kadikoy,
     rows |-> <<benzin_row(Istanbul, Kadikoy, 1, None)>>],
    [key |-> Istanbul \o <<32, 47, 32>> \o Besiktas,
     rows |-> <<benzin_row(Istanbul, Besiktas, 2, OLD_LPG),
                benzin_row(Istanbul, Besiktas, 3, None)>>],
    [key |-> Istanbul, rows |-> <<benzin_row(Istanbul, None, 4, OLD_LPG)>>],
    [key |-> KEY_AVRUPA, rows |-> <<benzin_row(Istanbul, Avrupa, 5, None)>>],
    [key |-> Istanbul \o <<32, 47, 32>> \o Merkez,
     rows |-> <<benzin_row(Istanbul, Merkez, 6, OLD_LPG)>>],
    [key |-> Ankara,
     rows |-> <<benzin_row(Ankara, None, 7, None),
                benzin_row(Ankara, None, 8, OLD_LPG)>>] }

MaxBenzinKeys == 2

DictInit ==
    /\ dict_pc = "input"
    /\ benzin_data = <<>>
    /\ merged_data = <<>>
    /\ lpg_data = <<>>
    /\ benzin_prices = <<>>
    /\ city_name = None
    /\ merged_prices = <<>>
    /\ file_text = None
    /\ merge_pc = "idle"

\* lpg_data gets one more key.
AddDictLpgEntry ==
    \E e \in DICT_LPG_ENTRIES :
        /\ dict_pc = "input"
        /\ benzin_data = <<>>
        /\ Len(lpg_data) < MaxLpgKeys
        /\ ~has_key(lpg_data, e.key)
        /\ lpg_data' = Append(lpg_data, e)
        /\ UNCHANGED <<benzin_prices, city_name, merged_prices, file_text, merge_pc,
                       lookup_vars, scraper_vars, cli_vars, extract_vars, dict_vars>>

\* benzin_data gets one more key.
AddBenzinEntry ==
    \E e \in BENZIN_ENTRIES :
        /\ dict_pc = "input"
        /\ Len(benzin_data) < MaxBenzinKeys
        /\ ~has_key(benzin_data, e.key)
        /\ benzin_data' = Append(benzin_data, e)
        /\ UNCHANGED <<merged_data, dict_pc, merge_vars, lookup_vars, scraper_vars,
                       cli_vars, extract_vars>>

\* The call _merge_lpg_into_benzin(benzin_data, lpg_data).  The rows of the
\* result are the row objects of benzin_data: those have the new lpg too.
MergeIntoBenzin ==
    /\ dict_pc = "input"
    /\ merged_data' = _merge_lpg_into_benzin(benzin_data, lpg_data)
    /\ benzin_data' = _merge_lpg_into_benzin(benzin_data, lpg_data)
    /\ dict_pc' = "merged"
    /\ UNCHANGED <<merge_vars, lookup_vars, scraper_vars, cli_vars, extract_vars>>

DictNext ==
    \/ AddDictLpgEntry
    \/ AddBenzinEntry
    \/ MergeIntoBenzin

DictOnlyInit ==
    DictInit /\ LookupIdle /\ RunIdle /\ LoopIdle /\ CliIdle /\ ExtractIdle

DictSpec == DictOnlyInit /\ [][DictNext]_vars

\* ------------------------------------------------------------------------
\* The operations together.

Init ==
    \/ LookupOnlyInit
    \/ MergeOnlyInit
    \/ RunOnlyInit
    \/ LoopOnlyInit
    \/ CliOnlyInit
    \/ ExtractOnlyInit
    \/ DictOnlyInit

Next ==
    \/ LookupNext
    \/ MergeNext
    \/ RunNext
    \/ LoopNext
    \/ CliNext
    \/ ExtractNext
    \/ DictNext

Spec == Init /\ [][Next]_vars

\* ------------------------------------------------------------------------
\* Claims about get_istanbul_district_region

\* C1: every case, ASCII-for-diacritic or whitespace variant v of a table key
\* k is given the region of k.  (The statement of the claim; the code breaks
\* it for a variant holding U+0130, the Turkish capital of "i".)
C1_VariantGetsRegionOfKey ==
    (lookup_pc = "returned" /\ is_variant)
        => lookup_result = ISTANBUL_DISTRICT_REGIONS[source_key].region

\* An argument whose normalized form is the normalized form of no key.
matches_no_key(s) ==
    LET n == normalized(s)
    IN  \A i \in 1..Len(ISTANBUL_DISTRICT_REGIONS) : normalized_key[i] # n

\* C2: an argument whose normalized form equals that of no key (the empty
\* string, a blank string and the labels "Avrupa" and "Anadolu" among them)
\* makes the lookup return None; the call returns for every argument.
C2_UnknownNameGivesNone ==
    lookup_pc = "returned" =>
        /\ matches_no_key(district_name) => lookup_result = None
        /\ district_name \in {<<>>, <<32>>, Avrupa, Anadolu} => lookup_result = None

C2_Witness ==
    /\ lookup_pc = "returned"
    /\ edits > 0
    /\ matches_no_key(district_name)
    /\ lookup_result = None

RECURSIVE last_match(_, _)
\* The lookup with the table iterated in the reverse order.
last_match(normalized_input, i) ==
    IF i < 1 THEN None
    ELSE IF normalized_key[i] = normalized_input
         THEN ISTANBUL_DISTRICT_REGIONS[i].region
    ELSE last_match(normalized_input, i - 1)

\* Keys with the same normalized form have the same region.
table_is_single_valued ==
    \A i, j \in 1..Len(ISTANBUL_DISTRICT_REGIONS) :
        normalized_key[i] = normalized_key[j]
            => ISTANBUL_DISTRICT_REGIONS[i].region = ISTANBUL_DISTRICT_REGIONS[j].region

\* C8: no two keys of the table have the same normalized form and different
\* regions, so the lookup returns the same whichever end of the table the
\* iteration starts from.
C8_OneRegionPerName ==
    /\ table_is_single_valued
    /\ lookup_pc = "returned" =>
          lookup_result =
              last_match(normalized(district_name), Len(ISTANBUL_DISTRICT_REGIONS))

C8_Witness ==
    /\ lookup_pc = "returned"
    /\ edits > 0
    /\ lookup_result = Anadolu

\* The region of the key whose normalized form is that of s, None without one.
reference_region(s) ==
    LET n == normalized(s)
        hits == {i \in 1..Len(ISTANBUL_DISTRICT_REGIONS) : normalized_key[i] = n}
    IN  IF hits = {} THEN None
        ELSE ISTANBUL_DISTRICT_REGIONS[CHOOSE i \in hits : TRUE].region

\* "I(dotted)stanbul / Kadi(dotless)ko:y", "Kadi(dotless)ko:y Merkez",
\* "Kadi(dotless)": texts that contain a key, or are a prefix of one.
NEAR_MISSES == {
    <<304, 115, 116, 97, 110, 98, 117, 108, 32, 47, 32, 75, 97, 100, 305, 107, 246, 121>>,
    <<75, 97, 100, 305, 107, 246, 121, 32, 77, 101, 114, 107, 101, 122>>,
    <<75, 97, 100, 305>> }

merge_returned == merge_pc \in {"merged", "written"}

\* The entries of an lpg_data whose key names Istanbul and the region.
istanbul_entries(data, region) ==
    {i \in 1..Len(data) :
        /\ contains(data[i].key, Istanbul) \/ contains(data[i].key, Istanbul_ascii)
        /\ contains(data[i].key, region)}

\* lpg_data holds a non-empty price of the region: one and the same non-empty
\* first price under every Istanbul key that names the region.
region_price_known(data, region) ==
    /\ istanbul_entries(data, region) # {}
    /\ \A i \in istanbul_entries(data, region) : truthy(first_lpg(data[i].rows))
    /\ \A i, j \in istanbul_entries(data, region) :
          first_lpg(data[i].rows) = first_lpg(data[j].rows)

\* That price.
region_price(data, region) ==
    first_lpg(data[CHOOSE i \in istanbul_entries(data, region) : TRUE].rows)

\* The region the table gives to a district that is literally one of its
\* keys, None for any other text.
region_of_key(district) ==
    IF \E k \in 1..Len(ISTANBUL_DISTRICT_REGIONS) :
          ISTANBUL_DISTRICT_REGIONS[k].key = district
    THEN ISTANBUL_DISTRICT_REGIONS[
             CHOOSE k \in 1..Len(ISTANBUL_DISTRICT_REGIONS) :
                 ISTANBUL_DISTRICT_REGIONS[k].key = district].region
    ELSE None

\* The lookup finds every key of the table, spelled as in the table, and
\* gives it the region of its entry.
every_key_is_found ==
    \A k \in 1..Len(ISTANBUL_DISTRICT_REGIONS) :
        get_istanbul_district_region(ISTANBUL_DISTRICT_REGIONS[k].key)
            = ISTANBUL_DISTRICT_REGIONS[k].region

\* C3: merged for "I(dotted)stanbul" with a non-empty Avrupa price and a
\* non-empty Anadolu price in lpg_data, every returned row whose district is
\* a key of the table has as lpg the price of the district's region (the
\* region the lookup gives to that key: a fact about the table, evaluated in
\* the first state only).
C3_DistrictGetsPriceOfItsRegion ==
    /\ (merge_pc = "input" /\ lpg_data = <<>> /\ benzin_prices = <<>>)
           => every_key_is_found
    /\ (/\ merge_returned
        /\ city_name = Istanbul
        /\ region_price_known(lpg_data, Avrupa)
        /\ region_price_known(lpg_data, Anadolu))
           => \A i \in 1..Len(merged_prices) :
                 region_of_key(merged_prices[i].district) # None
                     => merged_prices[i].lpg =
                            region_price(lpg_data,
                                         region_of_key(merged_prices[i].district))

\* Kadi(dotless)ko:y has got the Anadolu price "18.50".
C3_Witness ==
    /\ merge_returned
    /\ city_name = Istanbul
    /\ region_price_known(lpg_data, Avrupa)
    /\ region_price_known(lpg_data, Anadolu)
    /\ \E i \in 1..Len(merged_prices) :
          /\ merged_prices[i].district = <<75, 97, 100, 305, 107, 246, 121>>
          /\ merged_prices[i].lpg = <<49, 56, 46, 53, 48>>

\* C4, as claimed: the rows the Istanbul merge returns hold no row whose
\* district is literally "Avrupa" or "Anadolu".
C4_NoRegionLabelRowReturned ==
    (merge_returned /\ city_name = Istanbul)
        => \A i \in 1..Len(merged_prices) :
              merged_prices[i].district \notin {Avrupa, Anadolu}

RECURSIVE split_lines(_)
\* The lines of a text: its parts between the "\n" characters.
split_lines(text) ==
    LET n == span(text, {10})
    IN  IF n = Len(text) THEN <<text>>
        ELSE <<SubSeq(text, 1, n)>> \o split_lines(SubSeq(text, n + 2, Len(text)))

\* s begins with prefix
starts_with(s, prefix) ==
    Len(prefix) <= Len(s) /\ SubSeq(s, 1, Len(prefix)) = prefix

\* C4, amended: the Istanbul merge returns every row whose district is
\* literally "Avrupa" or "Anadolu" at the position it had, with every field
\* as it was, and the city file has the line of that row at that position.
C4_RegionLabelRowsAreKept ==
    (merge_returned /\ city_name = Istanbul)
        => /\ Len(merged_prices) = Len(benzin_prices)
           /\ \A i \in 1..Len(benzin_prices) :
                 benzin_prices[i].district \in {Avrupa, Anadolu}
                     => /\ merged_prices[i] = benzin_prices[i]
                        /\ merge_pc = "written"
                              => /\ Len(split_lines(file_text)) = Len(benzin_prices)
                                 /\ starts_with(split_lines(file_text)[i],
                                        str_upper(benzin_prices[i].district)
                                            \o <<32, 124, 32>>)

C4_Witness ==
    /\ merge_pc = "written"
    /\ city_name = Istanbul
    /\ Len(merged_prices) = 2
    /\ merged_prices[2].district = Avrupa
    /\ starts_with(split_lines(file_text)[2], str_upper(Avrupa))

\* C5: in the Istanbul merge a row whose district is a region name, in any
\* letter case, leaves the merge with the lpg it came with, whatever prices
\* lpg_data holds.
C5_RegionLabelRowKeepsLpg ==
    (merge_returned /\ city_name = Istanbul)
        => \A i \in 1..Len(benzin_prices) :
              (/\ truthy(benzin_prices[i].district)
               /\ str_lower(benzin_prices[i].district) \in REGION_LABELS)
                  => /\ i <= Len(merged_prices)
                     /\ merged_prices[i].district = benzin_prices[i].district
                     /\ merged_prices[i].lpg = benzin_prices[i].lpg

\* A row labelled "ANADOLU" has kept its lpg though the Anadolu price is known.
C5_Witness ==
    /\ merge_returned
    /\ city_name = Istanbul
    /\ region_price_known(lpg_data, Anadolu)
    /\ \E i \in 1..Len(merged_prices) :
          /\ merged_prices[i].district = <<65, 78, 65, 68, 79, 76, 85>>
          /\ merged_prices[i].lpg = None

\* C6: for a city other than "I(dotted)stanbul" every returned row has the lpg
\* of the first row stored under the key equal to city_name, when lpg_data has
\* that key with a non-empty list; else every row keeps its lpg.  A key that
\* differs from city_name in case, diacritics or whitespace is not that key.
C6_OtherCityDirectMatch ==
    (merge_returned /\ city_name # Istanbul)
        => /\ Len(merged_prices) = Len(benzin_prices)
           /\ IF \E k \in 1..Len(lpg_data) :
                    lpg_data[k].key = city_name /\ lpg_data[k].rows # <<>>
              THEN \A i \in 1..Len(merged_prices) : \A k \in 1..Len(lpg_data) :
                      lpg_data[k].key = city_name
                          => merged_prices[i].lpg = lpg_data[k].rows[1].lpg
              ELSE \A i \in 1..Len(merged_prices) :
                      merged_prices[i].lpg = benzin_prices[i].lpg

\* Ankara's rows have the price "16.00" of the key "Ankara", with the key
\* "ankara" in lpg_data as well.
C6_Witness ==
    /\ merge_returned
    /\ city_name = Ankara
    /\ has_key(lpg_data, str_lower(Ankara))
    /\ Len(merged_prices) = 2
    /\ \A i \in 1..2 : merged_prices[i].lpg = <<49, 54, 46, 48, 48>>

\* The lookup does not find the district of the row.
district_not_found(row) ==
    /\ truthy(row.district)
    /\ str_lower(row.district) \notin REGION_LABELS
    /\ get_istanbul_district_region(row.district) = None

\* C7: the Istanbul merge returns (it does not raise) when it meets a row
\* whose district the lookup does not find; that row keeps its lpg, and the
\* rows after it are processed: a district of the table still gets the price
\* of its region.
C7_UnknownDistrictIsSkipped ==
    (merge_returned /\ city_name = Istanbul)
        => /\ Len(merged_prices) = Len(benzin_prices)
           /\ \A i \in 1..Len(benzin_prices) :
                 district_not_found(benzin_prices[i])
                     => /\ merged_prices[i].lpg = benzin_prices[i].lpg
                        /\ \A j \in (i + 1)..Len(benzin_prices) :
                              LET region == region_of_key(benzin_prices[j].district)
                              IN  (region # None /\ region_price_known(lpg_data, region))
                                      => merged_prices[j].lpg =
                                             region_price(lpg_data, region)

\* "Merkez" came first and kept its lpg; the row after it got its price.
C7_Witness ==
    /\ merge_returned
    /\ city_name = Istanbul
    /\ Len(merged_prices) = 2
    /\ district_not_found(benzin_prices[1])
    /\ merged_prices[1].lpg = OLD_LPG
    /\ region_of_key(benzin_prices[2].district) # None
    /\ merged_prices[2].lpg # benzin_prices[2].lpg

\* C10: the merge returns one row per row of benzin_prices, in the same
\* order, and every field of a returned row but lpg is that of its input row.
C10_OneMergedRowPerInputRow ==
    merge_returned
        => /\ Len(merged_prices) = Len(benzin_prices)
           /\ \A i \in 1..Len(benzin_prices) :
                 [merged_prices[i] EXCEPT !.lpg = None]
                     = [benzin_prices[i] EXCEPT !.lpg = None]

\* Two rows came back, as they were but for the lpg of each.
C10_Witness ==
    /\ merge_returned
    /\ Len(merged_prices) = 2
    /\ \A i \in 1..2 :
          /\ merged_prices[i].lpg # benzin_prices[i].lpg
          /\ merged_prices[i].benzin_95 = benzin_prices[i].benzin_95

\* ------------------------------------------------------------------------
\* Claims about _write_aytemiz_prices_to_text

\* The lines of a file with this text (an empty file has none).
file_lines(text) == IF text = <<>> THEN <<>> ELSE split_lines(text)

\* A letter as the file shows it: the Turkish letters as their ASCII
\* capital, every other letter as its capital.
ascii_capital(c) ==
    CASE c \in {73, 105, 304, 305} -> 73
      [] c \in {350, 351} -> 83
      [] c \in {286, 287} -> 71
      [] c \in {220, 252} -> 85
      [] c \in {214, 246} -> 79
      [] c \in {199, 231} -> 67
      [] c \in 97..122 -> c - 32
      [] OTHER -> c

\* A field as the file shows it.
shown(value) == IF value = None \/ value = <<>> THEN <<45>> ELSE value

\* The line the claim describes for a row.
line_claimed(p) ==
    LET location == IF p.district # None /\ p.district # <<>> THEN p.district
                    ELSE p.city
    IN  [i \in 1..Len(location) |-> ascii_capital(location[i])]
        \o <<32, 124, 32, 66, 101, 110, 122, 105, 110, 32, 57, 53, 58, 32>>
        \o shown(p.benzin_95)
        \o <<32, 124, 32, 77, 111, 116, 111, 114, 105, 110, 58, 32>>
        \o shown(p.motorin)
        \o <<32, 124, 32, 77, 111, 116, 111, 114, 105, 110, 32, 79, 112, 116, 105, 109,
             117, 109, 58, 32>>
        \o shown(p.motorin_optimum)
        \o <<32, 124, 32, 75, 97, 108, 111, 114, 105, 102, 101, 114, 32, 89, 97, 107,
             305, 116, 305, 58, 32>>
        \o shown(p.kalorifer_yakiti)
        \o <<32, 124, 32, 70, 117, 101, 108, 32, 79, 105, 108, 58, 32>>
        \o shown(p.fuel_oil)
        \o <<32, 124, 32, 76, 80, 71, 58, 32>>
        \o shown(p.lpg)

\* C13: the city file has exactly one line per price row, in row order; a
\* line is the location (the district when present, otherwise the city, in
\* ASCII capitals) followed by "Benzin 95", "Motorin", "Motorin Optimum",
\* "Kalorifer Yakiti", "Fuel Oil" and "LPG" as "Label: value", all separated
\* by " | ", with "-" for every field that is None or empty.
C13_OneLinePerRow ==
    merge_pc = "written"
        => /\ Len(file_lines(file_text)) = Len(merged_prices)
           /\ \A i \in 1..Len(merged_prices) :
                 file_lines(file_text)[i] = line_claimed(merged_prices[i])

\* A file of two rows was written: a district with Turkish letters, a row
\* without district, an empty field and a field that is None among them.
C13_Witness ==
    /\ merge_pc = "written"
    /\ Len(merged_prices) = 2
    /\ \E i \in 1..2 :
          /\ merged_prices[i].district # None
          /\ \E k \in 1..Len(merged_prices[i].district) :
                merged_prices[i].district[k] > 127
    /\ \E i \in 1..2 : merged_prices[i].district = None
    /\ \E i \in 1..2 : merged_prices[i].kalorifer_yakiti = <<>>
    /\ \E i \in 1..2 : merged_prices[i].lpg = None

\* ------------------------------------------------------------------------
\* Claims about save_all_cities_prices_txt

\* The cities of the printed lines that start with msg, in the order printed.
cities_printed(msg) ==
    LET lines == SelectSeq(log, LAMBDA l : l.msg = msg)
    IN  [i \in 1..Len(lines) |-> lines[i].city]

\* The cities the loop has taken up so far.
cities_attempted == cities_printed("Fetching Benzin prices for city")

\* The cities of city_options, as the loop names them.
cities_listed == [i \in 1..Len(city_options) |-> strip(city_options[i].text)]

\* A failure of a city was caught and printed.
city_errors ==
    {i \in 1..Len(log) : log[i].msg \in {"Error fetching prices for",
                                         "Error writing file for"}}

\* The call returned through "except Exception" of the whole function: a
\* call outside the try of a city had raised.
run_aborted ==
    log # <<>> /\ log[Len(log)].msg = "Error in save_all_cities_prices_txt"

\* C11: a failure while selecting, extracting, merging or writing one city
\* is caught and printed and the loop goes on: the cities are taken up in the
\* order of the dropdown list, every error printed for a city names the city
\* taken up last, a call that returns without a failure outside the cities'
\* try has taken up every city of the list, whatever failed inside it, and the
\* list returned holds the files of the cities that were saved.
C11_CityFailureDoesNotEndLoop ==
    /\ \A i \in 1..Len(cities_attempted) :
          i <= Len(cities_listed) /\ cities_attempted[i] = cities_listed[i]
    /\ \A k \in city_errors :
          LET taken_up == SelectSeq(SubSeq(log, 1, k),
                              LAMBDA l : l.msg = "Fetching Benzin prices for city")
          IN  taken_up # <<>> /\ log[k].city = taken_up[Len(taken_up)].city
    /\ (run_pc = "returned" /\ ~run_aborted /\ Len(sessions) = 2)
          => cities_attempted = cities_listed
    /\ run_pc = "returned"
          => saved_files = [i \in 1..Len(cities_printed("Saved")) |->
                               file_path(cities_printed("Saved")[i])]

\* A call returned normally after the first of several cities had failed
\* and a later one was saved.
C11_Witness ==
    /\ run_pc = "returned"
    /\ ~run_aborted
    /\ Len(cities_listed) >= 2
    /\ \E k \in city_errors :
          /\ log[k].city = cities_listed[1]
          /\ \E j \in (k + 1)..Len(log) : log[j].msg = "Saved"

\* The lines printed while LPG prices are scraped, and while benzin prices are.
LPG_LINES == {"Waiting for LPG price table to load...",
              "Extracting LPG prices from main page...",
              "Istanbul LPG prices not found in main table.",
              "Error fetching Istanbul LPG prices"}

BENZIN_LINES == {"Fetching Benzin prices for city", "Found price row(s) for",
                 "Warning: No Benzin prices found for", "Error fetching prices for"}

\* C14 as claimed: a call that runs to its end launches exactly one browser
\* and creates exactly one page, and all LPG and benzin scraping happens on
\* that page.
C14_OneBrowserOnePage ==
    (run_pc = "returned" /\ ~run_aborted)
        => /\ Len(sessions) = 1
           /\ sessions[1].pages = 1
           /\ \A k \in 1..Len(log) :
                 log[k].msg \in LPG_LINES \cup BENZIN_LINES => log[k].page = 1

\* C14, amended: a call launches at most two browsers, first the one of the
\* LPG fetch, then the one of the benzin loop, and creates at most one page
\* in each; LPG prices are scraped on the page of the first and benzin prices
\* on the page of the second; a call that runs to its end has launched both
\* and created one page in each.
C14_TwoSessionsOnePageEach ==
    /\ Len(sessions) <= 2
    /\ \A i \in 1..Len(sessions) :
          /\ sessions[i].kind = (IF i = 1 THEN "lpg" ELSE "benzin")
          /\ sessions[i].pages <= 1
    /\ \A k \in 1..Len(log) :
          /\ log[k].msg \in LPG_LINES
                => log[k].page = 1 /\ sessions[1].pages = 1
          /\ log[k].msg \in BENZIN_LINES
                => log[k].page = 2 /\ sessions[2].pages = 1
    /\ (run_pc = "returned" /\ ~run_aborted)
          => Len(sessions) = 2 /\ \A i \in 1..2 : sessions[i].pages = 1

\* A call ran to its end after LPG prices were extracted and the file of a
\* city was saved.
C14_Witness ==
    /\ run_pc = "returned"
    /\ ~run_aborted
    /\ lpg_data # <<>>
    /\ saved_files # <<>>
    /\ Len(sessions) = 2

\* The browser sessions open now.
open_sessions == {i \in 1..Len(sessions) : sessions[i].open}

\* Control is inside _fetch_all_lpg_prices_dict.
in_lpg_fetch ==
    run_pc \in {"lpg_launch", "lpg_page", "lpg_goto", "lpg_click", "lpg_extract",
                "lpg_istanbul", "lpg_close"}

\* C15: two browser sessions are never open at the same time: whichever way
\* _fetch_all_lpg_prices_dict is left (return, early return after the LPG
\* button could not be clicked, exception), its session is closed from then
\* on, so before the benzin session is launched.
C15_NeverTwoSessionsOpen ==
    /\ Cardinality(open_sessions) <= 1
    /\ (~in_lpg_fetch /\ sessions # <<>> /\ sessions[1].kind = "lpg")
          => ~sessions[1].open
    /\ \A i \in open_sessions :
          sessions[i].kind = (IF in_lpg_fetch THEN "lpg" ELSE "benzin")

\* The benzin session is open after the LPG fetch returned early.
C15_Witness ==
    /\ Len(sessions) = 2
    /\ open_sessions = {2}
    /\ \E k \in 1..Len(log) :
          log[k].msg = "Could not switch to LPG prices. Exiting LPG fetch."

\* The positions in log of the lines with one of the messages msgs.
lines_with(msgs) == {k \in 1..Len(log) : log[k].msg \in msgs}

\* The file of a city, written to its end, is in output_dir.
file_exists(city) ==
    \E f \in files : f.path = file_path(city) /\ f.text # <<>>

\* C19: the LPG fetch is over before the benzin loop begins: every line the
\* LPG fetch prints comes before "Fetched LPG data", and that line before
\* every line of the benzin loop, which is printed with the LPG browser
\* closed.  For a city the order is select, extract, merge, write: rows are
\* found right after the city was taken up, the write follows the find (and
\* the merge of just these rows), for the same city, and when the next city
\* is taken up, and in every later state, whatever fails, the file of every
\* city reported saved is there.
C19_LpgFirstThenCityByCity ==
    /\ \A k \in lines_with(BENZIN_LINES \cup {"Saved", "Error writing file for",
                                             "Fetching benzin prices and writing files..."}) :
          /\ \E j \in lines_with({"Fetched LPG data"}) : j < k
          /\ \A j \in lines_with(LPG_LINES \cup {"Fetched LPG data",
                          "Could not switch to LPG prices. Exiting LPG fetch."}) :
                j < k
          /\ ~sessions[1].open
    /\ \A k \in lines_with({"Found price row(s) for",
                            "Warning: No Benzin prices found for"}) :
          /\ log[k - 1].msg = "Fetching Benzin prices for city"
          /\ log[k - 1].city = log[k].city
    /\ \A k \in lines_with({"Saved", "Error writing file for"}) :
          /\ log[k - 1].msg = "Found price row(s) for"
          /\ log[k - 1].city = log[k].city
    /\ run_pc = "write" =>
          /\ city_name = strip(city_options[city_index].text)
          /\ benzin_prices # <<>>
          /\ merged_prices
                = _merge_lpg_for_single_city(city_name, benzin_prices, lpg_data)
          /\ log[Len(log)].msg = "Found price row(s) for"
          /\ log[Len(log)].city = city_name
    /\ \A k \in lines_with({"Saved"}) : file_exists(log[k].city)
    /\ (run_pc = "pause" /\ log[Len(log)].msg = "Saved") =>
          \E f \in files :
             /\ f.path = file_path(strip(city_options[city_index].text))
             /\ f.text = _write_aytemiz_prices_to_text(merged_prices)

\* The call was left by an exception outside the try of a city, or a later
\* city failed, after the file of an earlier city was written with LPG
\* prices merged in.
C19_Witness ==
    /\ run_pc = "returned"
    /\ run_aborted
    /\ lpg_data # <<>>
    /\ \E k \in lines_with({"Saved"}) :
          /\ file_exists(log[k].city)
          /\ \E j \in lines_with({"Error fetching prices for"}) : k < j

\* The cities taken up so far for which msg was printed, in the order taken up.
cities_with(msg) ==
    SelectSeq(cities_attempted,
              LAMBDA c : \E k \in lines_with({msg}) : log[k].city = c)

\* C20: saved_files holds, in the order of the dropdown list, the path of
\* every city for which rows were found and the file was written to its end,
\* and nothing else: no path of a city without rows or with a failed write,
\* and no path twice; each path in it names a file that is there, and no
\* file at all is there for a city without rows.
C20_ReturnsCreatedFiles ==
    /\ saved_files
          = [i \in 1..Len(SelectSeq(cities_listed, file_exists)) |->
                file_path(SelectSeq(cities_listed, file_exists)[i])]
    /\ \A i \in 1..Len(cities_with("Warning: No Benzin prices found for")) :
          LET city == cities_with("Warning: No Benzin prices found for")[i]
          IN  /\ \A f \in files : f.path # file_path(city)
              /\ \A j \in 1..Len(saved_files) : saved_files[j] # file_path(city)
    /\ \A i \in 1..Len(cities_with("Error writing file for")) :
          LET city == cities_with("Error writing file for")[i]
          IN  /\ ~file_exists(city)
              /\ \A j \in 1..Len(saved_files) : saved_files[j] # file_path(city)
    /\ \A i \in 1..Len(cities_with("Found price row(s) for")) :
          LET city == cities_with("Found price row(s) for")[i]
          IN  (run_pc \notin {"merge", "write"} \/ city # city_name)
                  => (file_exists(city)
                        <=> \E k \in lines_with({"Saved"}) : log[k].city = city)

\* The call returned a list with the files of two cities, having passed
\* over, before the second of them, a city without rows or a city whose
\* write failed and left an empty file.
C20_Witness ==
    /\ run_pc = "returned"
    /\ Len(saved_files) = 2
    /\ Len(cities_attempted) = 3
    /\ cities_attempted[3] = cities_printed("Saved")[2]
    /\ \/ cities_with("Warning: No Benzin prices found for") # <<>>
       \/ \E f \in files : f.text = <<>>

\* The LPG fetch has returned, and returned an empty dict.
lpg_fetch_empty == lpg_data = <<>> /\ lines_with({"Fetched LPG data"}) # {}

\* s ends with suffix.
ends_with(s, suffix) ==
    /\ Len(s) >= Len(suffix)
    /\ SubSeq(s, Len(s) - Len(suffix) + 1, Len(s)) = suffix

\* The cities taken up whose steps were all done without an error printed.
cities_done_without_error ==
    SelectSeq(cities_with("Found price row(s) for"),
              LAMBDA c : /\ \A k \in city_errors : log[k].city # c
                         /\ (run_pc \in {"merge", "write"} => c # city_name))

\* C21: when the LPG fetch returned no data, the benzin loop still runs: a
\* call that is not ended by an exception outside the cities' try has
\* launched the benzin browser and taken up every city of the list, every city whose rows were found and whose merge
\* and write did not fail has its file, no merged row has an lpg value, and
\* every line of every file written ends with "LPG: -".
C21_NoLpgDataStillWritesFiles ==
    lpg_fetch_empty =>
        /\ (run_pc = "returned" /\ ~run_aborted) =>
              /\ Len(sessions) = 2 /\ sessions[2].kind = "benzin"
              /\ cities_attempted = cities_listed
        /\ \A i \in 1..Len(cities_done_without_error) :
              file_exists(cities_done_without_error[i])
        /\ run_pc = "write" =>
              \A i \in 1..Len(merged_prices) : merged_prices[i].lpg = None
        /\ \A f \in files :
              \A i \in 1..Len(file_lines(f.text)) :
                 ends_with(file_lines(f.text)[i], <<76, 80, 71, 58, 32, 45>>)

\* The call returned with the file of Istanbul and another file written,
\* after an LPG fetch that found no row in either table.
C21_Witness ==
    /\ lpg_fetch_empty
    /\ lines_with({"Istanbul LPG prices not found in main table."}) # {}
    /\ run_pc = "returned"
    /\ Len(saved_files) = 2
    /\ file_exists(Istanbul)

\* The rows found on a page are all in the dict after the step, each in
\* the list of the key "city / district" if it has a district, else "city".
stored_by_key(prices, all_lpg_prices) ==
    \A k \in 1..Len(prices) :
        \E e \in 1..Len(all_lpg_prices) :
            /\ all_lpg_prices[e].key
                  = (IF prices[k].district # None /\ prices[k].district # <<>>
                     THEN prices[k].city \o <<32, 47, 32>> \o prices[k].district
                     ELSE prices[k].city)
            /\ \E r \in 1..Len(all_lpg_prices[e].rows) :
                  all_lpg_prices[e].rows[r] = prices[k]

\* The number of rows in the dict.
RECURSIVE row_count(_)
row_count(all_lpg_prices) ==
    IF all_lpg_prices = <<>> THEN 0
    ELSE Len(Head(all_lpg_prices).rows) + row_count(Tail(all_lpg_prices))

\* One step of _fetch_all_lpg_prices_dict, as the claim has it.
C22_step ==
    /\ run_pc = "lpg_extract" =>
          /\ \E prices \in LPG_TABLES :
                /\ stored_by_key(prices, lpg_data')
                /\ row_count(lpg_data') = Len(prices)
          /\ run_pc' = "lpg_istanbul"
                <=> \A e \in 1..Len(lpg_data') : ~contains(lpg_data'[e].key, Istanbul)
          /\ run_pc' # "lpg_istanbul" => run_pc' = "lpg_close"
    /\ run_pc = "lpg_istanbul" =>
          /\ run_pc' = "lpg_close"
          /\ IF log'[Len(log')].msg = "Error fetching Istanbul LPG prices"
               THEN lpg_data' = lpg_data
               ELSE \E prices \in ISTANBUL_LPG_TABLES :
                       /\ stored_by_key(prices, lpg_data')
                       /\ row_count(lpg_data') = row_count(lpg_data) + Len(prices)
                       /\ \A e \in 1..Len(lpg_data) :
                             /\ lpg_data'[e].key = lpg_data[e].key
                             /\ SubSeq(lpg_data'[e].rows, 1, Len(lpg_data[e].rows))
                                   = lpg_data[e].rows
    /\ run_pc = "lpg_close" => lpg_data' = lpg_data /\ run_pc' = "benzin_launch"

\* C22: every LPG row extracted is stored under "city / district" if it has
\* a district and under "city" otherwise; Istanbul is selected and the table
\* extracted again if and only if no key holds "I(dotted)stanbul" once the
\* main table is stored; if that step fails the dict stays as it was, and
\* the dict is what the function returns.
C22_KeysAndIstanbulStep == [][C22_step]_vars

\* The Istanbul step failed after rows of the main table had been stored,
\* one of them with the district "" and one under "Istanbul / Avrupa" with a
\* plain I, and the function has returned them.
C22_Witness ==
    /\ run_pc = "benzin_launch"
    /\ log[Len(log) - 1].msg = "Error fetching Istanbul LPG prices"
    /\ Len(lpg_data) = 2
    /\ Len(lpg_data[1].rows) = 2
    /\ contains(lpg_data[2].key, Istanbul_ascii)

\* ------------------------------------------------------------------------
\* Claims about the fetch-all loops of the other scrapers

\* The items (cities, pages) the loop has tried so far, in the order tried.
items_tried ==
    LET first_tries == SelectSeq(attempts, LAMBDA a : a.attempt = 0)
    IN  [i \in 1..Len(first_tries) |-> first_tries[i].item]

\* C12: in every scraper's fetch-all operation a failure while fetching one
\* city (or one page) only skips that item: the exception never leaves the
\* operation, and an operation that has returned has tried every item of its
\* list, in list order.
C12_ItemFailureIsSkipped ==
    /\ raised_in \notin {"attempt", "fetch_page"}
    /\ loop_pc = "returned" => items_tried = [i \in 1..Len(items) |-> i]

\* The positions in attempts of the attempts made for the item at index i.
attempts_of(i) == {k \in 1..Len(attempts) : attempts[k].item = i}

\* The positions in attempts of the attempts that ran to their break.
completed == {k \in 1..Len(attempts) : attempts[k].ok}

fetch_then_merge ==
    [k \in 1..Len(FETCH_ALL_WITH_LPG_BODY) |->
        [site |-> "aytemiz", module |-> "aytemiz.scraper",
         attr |-> FETCH_ALL_WITH_LPG_BODY[k]]]

\* C16: fetch_all_cities_with_lpg calls the benzin fetch, then the LPG fetch,
\* then the merge, in that order, and returns; unless one of the functions
\* it calls raises, it is not left by an exception.
C16_BenzinThenLpgThenMerge ==
    entry = "fetch_all_cities_with_lpg" =>
        /\ \A k \in 1..Len(calls) :
              k <= Len(fetch_then_merge) /\ calls[k].fn = fetch_then_merge[k]
        /\ cli_pc = "raised" => cli_error = "Exception"
        /\ cli_pc = "returned" => Len(calls) = Len(fetch_then_merge)

\* C17: every function a run_ function calls belongs to the site whose
\* prices directory it passes on (or to the package common); run_shell calls
\* the function the shell package exports as save_all_cities_prices_txt with
\* --all and the one it exports as save_city_prices_txt otherwise, and
\* run_aytemiz calls save_all_cities_prices_txt of aytemiz.scraper.
C17_OwnSiteDispatch ==
    /\ entry \in ENTRY_NAMES =>
          \A k \in 1..Len(calls) : calls[k].fn.site \in {output_dir, "common"}
    /\ (entry = "run_shell" /\ calls # <<>>) =>
          /\ output_dir = "shell"
          /\ calls[1].fn = [site |-> "shell", module |-> "shell",
                            attr |-> IF args.all THEN "save_all_cities_prices_txt"
                                     ELSE "save_city_prices_txt"]
    /\ (entry = "run_aytemiz" /\ calls # <<>>) =>
          /\ output_dir = "aytemiz"
          /\ calls[1].fn = [site |-> "aytemiz", module |-> "aytemiz.scraper",
                            attr |-> "save_all_cities_prices_txt"]

\* ------------------------------------------------------------------------
\* Claims about _extract_benzin_prices_from_page

\* The rows of the table with at least six cells that are read without an
\* error, in the order of the table.
rows_read == SelectSeq(page_rows, LAMBDA r : Len(r.cells) >= 6 /\ ~r.raises)

\* d is what follows the last "/" of t.
follows_last_slash(t, d) ==
    \E j \in 1..Len(t) :
        /\ t[j] = 47
        /\ \A k \in (j + 1)..Len(t) : t[k] # 47
        /\ d = SubSeq(t, j + 1, Len(t))

\* C23: every row with at least six cells gives one price row, in order, and
\* no other row gives one.  With t the stripped text of the first cell: when
\* t holds a "/", the city is what precedes the first "/" and the district
\* what follows the last "/", both stripped; otherwise, when a selected city
\* name is given and t differs from it ignoring case, the city is the
\* selected city and the district is t; otherwise the city is t and the
\* district is None.
C23_CityAndDistrictOfFirstCell ==
    extract_pc = "returned" =>
        /\ Len(benzin_prices) = Len(rows_read)
        /\ \A k \in 1..Len(rows_read) :
              LET t == strip(rows_read[k].cells[1])
                  p == benzin_prices[k]
              IN  IF \E j \in 1..Len(t) : t[j] = 47
                  THEN /\ p.city = strip(split_first(t, <<47>>))
                       /\ \E d \in {SubSeq(t, j, Len(t)) : j \in 1..(Len(t) + 1)} :
                             follows_last_slash(t, d) /\ p.district = strip(d)
                  ELSE IF city_name # None /\ city_name # <<>>
                          /\ str_lower(t) # str_lower(city_name)
                  THEN p.city = city_name /\ p.district = t
                  ELSE p.city = t /\ p.district = None

\* A table whose first row has five cells and whose second row names a
\* district alone while a city is selected: one price row, of that city and
\* that district.
C23_Witness ==
    /\ extract_pc = "returned"
    /\ Len(page_rows) = 2
    /\ Len(page_rows[1].cells) = 5
    /\ Len(page_rows[2].cells) = 6
    /\ city_name = Istanbul
    /\ Len(benzin_prices) = 1
    /\ benzin_prices[1].city = Istanbul
    /\ benzin_prices[1].district = Kadikoy

\* ------------------------------------------------------------------------
\* Claims about _merge_lpg_into_benzin

\* The step of the call: benzin_data and lpg_data are what it is given,
\* merged_data' is what it returns.
into_benzin_step == dict_pc = "input" /\ dict_pc' = "merged"

\* The rows are those of before, each with the lpg price.
rows_with_lpg(after, before, price) ==
    /\ Len(after) = Len(before)
    /\ \A i \in 1..Len(before) : after[i] = [before[i] EXCEPT !.lpg = price]

\* The first price of an LPG entry, None when it has no rows.
first_price(e) == IF e.rows = <<>> THEN None ELSE e.rows[1].lpg

non_empty(price) == price # None /\ price # <<>>

\* The part of a key after its last "/", stripped; None without a "/".
part_after_slash(key) ==
    IF \E j \in 1..Len(key) : key[j] = 47
    THEN strip(SubSeq(key, (CHOOSE j \in 1..Len(key) :
                               key[j] = 47 /\ \A k \in (j + 1)..Len(key) : key[k] # 47) + 1,
                      Len(key)))
    ELSE None

\* The Istanbul LPG entry e, of a region and with a non-empty first price,
\* speaks of the benzin key: the key is "Istanbul / D" with D of the region
\* of e, or it is Istanbul without a district and e is of Avrupa.
istanbul_entry_covers(e, benzin_key) ==
    /\ contains(e.key, Istanbul)
    /\ non_empty(part_after_slash(e.key))
    /\ non_empty(first_price(e))
    /\ contains(benzin_key, Istanbul)
    /\ IF non_empty(part_after_slash(benzin_key))
       THEN get_istanbul_district_region(part_after_slash(benzin_key))
                = part_after_slash(e.key)
       ELSE part_after_slash(e.key) = Avrupa

\* The LPG entry e of another city speaks of the benzin key: the keys are
\* equal and e has a first price.
city_entry_covers(e, benzin_key) ==
    /\ ~contains(e.key, Istanbul)
    /\ e.key = benzin_key
    /\ e.rows # <<>>

\* C24, as the claim states it: the result has the keys of benzin_data; the
\* rows under a key an LPG entry speaks of get the first price of that
\* entry; all other rows keep their lpg.
C24_step_as_stated ==
    into_benzin_step =>
        /\ Len(merged_data') = Len(benzin_data)
        /\ \A k \in 1..Len(benzin_data) :
              /\ merged_data'[k].key = benzin_data[k].key
              /\ \A i \in 1..Len(lpg_data) :
                    (\/ istanbul_entry_covers(lpg_data[i], benzin_data[k].key)
                     \/ city_entry_covers(lpg_data[i], benzin_data[k].key))
                    => rows_with_lpg(merged_data'[k].rows, benzin_data[k].rows,
                                     first_price(lpg_data[i]))
              /\ (\A i \in 1..Len(lpg_data) :
                     /\ ~istanbul_entry_covers(lpg_data[i], benzin_data[k].key)
                     /\ ~city_entry_covers(lpg_data[i], benzin_data[k].key))
                 => merged_data'[k].rows = benzin_data[k].rows

C24_AsStated == [][C24_step_as_stated]_vars

\* The entries of lpg_data that give their price to the rows of the benzin
\* key: an Istanbul entry that speaks of it, or the entry of another city
\* with that key and a non-empty first price.
giving_entries(benzin_key) ==
    {i \in 1..Len(lpg_data) :
        \/ istanbul_entry_covers(lpg_data[i], benzin_key)
        \/ city_entry_covers(lpg_data[i], benzin_key)
           /\ non_empty(first_price(lpg_data[i]))}

C24_step ==
    into_benzin_step =>
        /\ Len(merged_data') = Len(benzin_data)
        /\ \A k \in 1..Len(benzin_data) :
              /\ merged_data'[k].key = benzin_data[k].key
              /\ \A i \in giving_entries(benzin_data[k].key) :
                    (\A j \in giving_entries(benzin_data[k].key) : j <= i)
                    => rows_with_lpg(merged_data'[k].rows, benzin_data[k].rows,
                                     first_price(lpg_data[i]))
              /\ giving_entries(benzin_data[k].key) = {}
                 => merged_data'[k].rows = benzin_data[k].rows

\* C24: the result has the keys of benzin_data.  The rows under a benzin key
\* "Istanbul / D" get the first price of the last LPG key of Istanbul that
\* names the region of D and has a non-empty first price; the rows under
\* Istanbul without a district get that of the last such key of Avrupa; the
\* rows under the key of another city get the first price of the LPG key
\* equal to it when that price is non-empty; all other rows keep their lpg.
C24_MergeIntoBenzin == [][C24_step]_vars

\* An LPG key of Ankara with an empty first price and the key of Avrupa,
\* merged into Ankara and Istanbul without a district: the rows of Ankara
\* keep their lpg, the row of Istanbul has the price of Avrupa.
C24_Witness ==
    /\ dict_pc = "merged"
    /\ Len(lpg_data) = 2
    /\ lpg_data[1].key = Ankara
    /\ lpg_data[1].rows # <<>> /\ lpg_data[1].rows[1].lpg = <<>>
    /\ lpg_data[2].key = KEY_AVRUPA /\ lpg_data[2].rows # <<>>
    /\ Len(merged_data) = 2
    /\ merged_data[1].key = Ankara
    /\ merged_data[1].rows[1].lpg = None
    /\ merged_data[1].rows[2].lpg = OLD_LPG
    /\ merged_data[2].key = Istanbul
    /\ merged_data[2].rows[1].lpg = lpg_data[2].rows[1].lpg

\* The rows under the benzin key are rows of Istanbul: all of the district
\* the key names, or all without a district under the key "Istanbul".
istanbul_rows_under(e) ==
    \A i \in 1..Len(e.rows) :
        /\ e.rows[i].city = Istanbul
        /\ IF e.rows[i].district = None THEN e.key = Istanbul
           ELSE e.key = Istanbul \o <<32, 47, 32>> \o e.rows[i].district

\* C25: the two merge routines agree on Istanbul.  For the same lpg_data,
\* the rows under a benzin key "Istanbul / D", and those under "Istanbul"
\* without a district, leave _merge_lpg_into_benzin with the lpg that
\* _merge_lpg_for_single_city gives them for the city Istanbul, whatever the
\* shape of the Istanbul keys of lpg_data.  (The statement of the claim; the
\* code breaks it.)
C25_step ==
    into_benzin_step =>
        \A k \in 1..Len(benzin_data) :
            istanbul_rows_under(benzin_data[k]) =>
                /\ Len(merged_data'[k].rows) = Len(benzin_data[k].rows)
                /\ \A i \in 1..Len(benzin_data[k].rows) :
                      merged_data'[k].rows[i].lpg =
                          _merge_lpg_for_single_city(Istanbul, benzin_data[k].rows,
                                                     lpg_data)[i].lpg

C25_MergeRoutinesAgree == [][C25_step]_vars

\* The step of the call of _merge_lpg_for_single_city.
single_city_step == merge_pc = "input" /\ merge_pc' = "merged"

\* C26: neither merge routine modifies what it is given.  After the call the
\* row objects of the benzin input have the field values of before, lpg
\* among them, and lpg_data is as before.  (The statement of the claim; the
\* code of _merge_lpg_into_benzin breaks it.  ISTANBUL_DISTRICT_REGIONS is
\* only read by get_istanbul_district_region: it is a constant here.)
C26_step ==
    /\ single_city_step => benzin_prices' = benzin_prices /\ lpg_data' = lpg_data
    /\ into_benzin_step => benzin_data' = benzin_data /\ lpg_data' = lpg_data

C26_InputsNotModified == [][C26_step]_vars

\* ------------------------------------------------------------------------
\* More claims about _merge_lpg_for_single_city

\* The LPG prices stored under the Istanbul keys of lpg_data that name the
\* region.
prices_under(region) ==
    UNION {{lpg_data[k].rows[j].lpg : j \in 1..Len(lpg_data[k].rows)} :
              k \in istanbul_entries(lpg_data, region)}

\* C27: in the Istanbul merge no district row receives the price of the
\* other region.  Whatever lpg_data holds, a row whose district the lookup
\* maps to a region ends with the lpg it had or with a price stored under an
\* Istanbul key that names that region; when no such key holds a non-empty
\* price, the row ends with the lpg it had.
C27_NeverPriceOfOtherRegion ==
    (merge_returned /\ city_name = Istanbul) =>
        \A i \in 1..Len(benzin_prices) :
            LET region == IF benzin_prices[i].district = None THEN None
                          ELSE get_istanbul_district_region(benzin_prices[i].district)
            IN  region \in {Avrupa, Anadolu}
                => /\ \/ merged_prices[i].lpg = benzin_prices[i].lpg
                      \/ merged_prices[i].lpg \in prices_under(region)
                   /\ (\A p \in prices_under(region) : p = None \/ p = <<>>)
                         => merged_prices[i].lpg = benzin_prices[i].lpg

\* Two Istanbul keys name Avrupa, none names Anadolu: the row of Besiktas
\* has the price of the later key, the row of Kadikoy the lpg it had.
C27_Witness ==
    /\ merge_returned
    /\ city_name = Istanbul
    /\ Len(lpg_data) = 2
    /\ lpg_data[1].key = KEY_AVRUPA /\ lpg_data[1].rows # <<>>
    /\ lpg_data[2].key = KEY_AVRUPA_ascii
    /\ Len(benzin_prices) = 2
    /\ benzin_prices[1].district = Besiktas
    /\ merged_prices[1].lpg = lpg_data[2].rows[1].lpg
    /\ benzin_prices[2].district = Kadikoy
    /\ benzin_prices[2].lpg = None
    /\ merged_prices[2].lpg = None

====
